---------------------------- MODULE Spec2Model ----------------------------
(***************************************************************************)
(* A model of borgapi's output capture (src/borgapi/capture.py) and of the *)
(* command dispatch that opens one capture session per engine call         *)
(* (src/borgapi/borgapi.py).                                               *)
(*                                                                         *)
(* Text is a sequence of one-character strings, so that the line splitting *)
(* and stripping of ListStringIO.write are computed, not assumed.          *)
(***************************************************************************)
EXTENDS Integers, Sequences, FiniteSets, TLC

VARIABLES
    lsio,       \* a stand-alone ListStringIO: [values, idx, closed]
    lsioCall,   \* the last method called on lsio, its argument and its return value
    nwrites,    \* number of write() calls made on lsio so far
    sys_stdout, \* the object sys.stdout is bound to
    sys_stderr, \* the object sys.stderr is bound to
    console,    \* the streams the host program installed: [out, err]
    heap,       \* the capture buffers still referenced: id -> buffer
    hheap,      \* the PersistantHandlers still referenced: id -> handler
    loggers,    \* logging channel -> the set of capture handlers attached to it
    output,     \* the attributes of the OutputCapture object self.output
    archiver_log_json, \* self.archiver.log_json
    pc,         \* thread -> where it stands in its command call
    frame,      \* thread -> the locals of its command call
    outcome,    \* thread -> how its last call ended
    ncalls,     \* command calls made so far
    nsessions,  \* capture sessions opened so far
    arrived,    \* the records a channel delivered to a stand-alone log capture
    pollPc,     \* where the polling caller stands
    pollRet,    \* what its last output.progress().get() returned, and from which buffer
    fnCall,     \* a call of a function without side effects: [op, arg, ret]
    forked,     \* the parent process of a mount(), from os.fork() on
    os_environ, \* os.environ: variable name -> value
    previous_dotenv, \* self._previous_dotenv: the names the last set_environ loaded
    envCall     \* the last set_environ or unset_environ call: [op, n, ...]

bufVars == <<lsio, lsioCall, nwrites>>

\* the process-wide state one capture session acts on
worldVars == <<sys_stdout, sys_stderr, heap, hheap, loggers, output>>

callVars == <<pc, frame, outcome, ncalls, nsessions, archiver_log_json, console>>

pollVars == <<pollPc, pollRet>>

envVars == <<os_environ, previous_dotenv, envCall>>

vars == <<bufVars, worldVars, callVars, arrived, pollVars, fnCall, forked, envVars>>

-----------------------------------------------------------------------------
(* Bounds of the model.                                                    *)

\* write() calls made on the stand-alone buffer
MaxWrites == 3

\* command calls made in one behaviour
MaxCalls == 2

\* steps (writes, log records) the engine makes in one call
MaxEngineSteps == 2

\* records the channel of the stand-alone log capture emits
MaxEmits == 3

\* length of the texts given to _loads_json_lines, all of them tried
MaxJsonLen == 3

\* the longest list given to a list-typed option
MaxItems == 2

\* set_environ and unset_environ calls made on one BorgAPI
MaxEnvCalls == 3

\* names given to one unset_environ call
MaxNames == 2

\* changes given to one config call
MaxChanges == 2

-----------------------------------------------------------------------------
(* Text helpers: str.replace, str.splitlines(keepends=True), str.rstrip.   *)

NL == "\n"
CR == "\r"

\* the characters the model writes
Chars == {"a", " ", NL, CR}

\* the characters str.rstrip() removes, among those of the model
Whitespace == {" ", NL, CR}

Last(s) == s[Len(s)]

Front(s) == SubSeq(s, 1, Len(s) - 1)

\* val.replace("\r", "\n")
ReplaceCR(s) == [i \in 1..Len(s) |-> IF s[i] = CR THEN NL ELSE s[i]]

\* the index at which the first line of the non-empty text s ends: its first
\* line break ("\n", "\r" or the pair "\r\n") or, with none, its end
FirstLineEnd(s) ==
    LET breaks == {i \in 1..Len(s) : s[i] \in {NL, CR}}
    IN  IF breaks = {} THEN Len(s)
        ELSE LET k == CHOOSE i \in breaks : \A j \in breaks : i <= j
             IN  IF s[k] = CR /\ k < Len(s) /\ s[k + 1] = NL THEN k + 1 ELSE k

\* s.splitlines(keepends=True)
RECURSIVE SplitLinesKeepEnds(_)
SplitLinesKeepEnds(s) ==
    IF s = <<>> THEN <<>>
    ELSE LET k == FirstLineEnd(s)
         IN  <<SubSeq(s, 1, k)>> \o SplitLinesKeepEnds(SubSeq(s, k + 1, Len(s)))

\* s.rstrip()
RECURSIVE RStrip(_)
RStrip(s) ==
    IF s # <<>> /\ Last(s) \in Whitespace THEN RStrip(Front(s)) ELSE s

\* "".join(parts)
RECURSIVE Join(_)
Join(parts) ==
    IF parts = <<>> THEN <<>> ELSE Head(parts) \o Join(Tail(parts))

-----------------------------------------------------------------------------
(* ListStringIO (capture.py): the line-oriented capture buffer.            *)

\* the value a method returns: None, or a value
NoneRet == [none |-> TRUE, val |-> <<>>]
Some(v) == [none |-> FALSE, val |-> v]

\* ListStringIO.__init__
NewListStringIO == [values |-> <<>>, idx |-> 0, closed |-> FALSE]

\* one element of dvals as write() stores it: stripped on the right, its
\* newline kept
CleanLine(v) ==
    LET nv == RStrip(v)
    IN  IF Last(v) = NL THEN Append(nv, NL) ELSE nv

NonEmpty(v) == v # <<>>

\* the list vals that write(s) builds from the text s
WriteVals(s) ==
    LET dvals == SplitLinesKeepEnds(ReplaceCR(s))
    IN  SelectSeq([i \in 1..Len(dvals) |-> CleanLine(dvals[i])], NonEmpty)

\* a write that puts its first line in the place of an unfinished last
\* element instead of joining the two
LSIO_write_Replace(b, s) ==
    LET vals == WriteVals(s)
    IN  IF vals # <<>> /\ b.values # <<>> /\ Last(Last(b.values)) # NL
        THEN [b EXCEPT !.values = Front(@) \o vals]
        ELSE [b EXCEPT !.values = @ \o vals]

\* ListStringIO.write on an open buffer: the buffer after the call
LSIO_write(b, s) ==
    LET vals == WriteVals(s)
    IN  IF vals # <<>> /\ b.values # <<>> /\ Last(Last(b.values)) # NL
        THEN [b EXCEPT !.values = Front(@) \o <<Last(@) \o vals[1]>> \o Tail(vals)]
        ELSE [b EXCEPT !.values = @ \o vals]

\* a get() that returns the element at the cursor and forgets to advance
LSIO_get_NoAdvance(b) ==
    IF b.idx >= Len(b.values)
    THEN [buf |-> b, ret |-> NoneRet]
    ELSE [buf |-> b, ret |-> Some(b.values[b.idx + 1])]

\* ListStringIO.get: the buffer after the call and the value returned
LSIO_get(b) ==
    IF b.idx >= Len(b.values)
    THEN [buf |-> b, ret |-> NoneRet]
    ELSE [buf |-> [b EXCEPT !.idx = @ + 1], ret |-> Some(b.values[b.idx + 1])]

\* ListStringIO.get_all: the buffer after the call and the value returned
LSIO_get_all(b) == [buf |-> b, ret |-> Some(b.values)]

\* the text getvalues() reads out of a ListStringIO, and the buffer after it
LSIO_getvalue(b) == [buf |-> LSIO_get_all(b).buf, ret |-> Some(Join(LSIO_get_all(b).ret.val))]

-----------------------------------------------------------------------------
(* Objects.  Every object has an identity <<kind, n>>; the buffers and     *)
(* handlers of the n-th capture session carry n.                           *)

RealStdout == <<"real_stdout", 0>>
RealStderr == <<"real_stderr", 0>>
UserStdout == <<"user_stdout", 0>>
UserStderr == <<"user_stderr", 0>>

\* an attribute that was never assigned: reading it raises AttributeError
Unset == <<"unset", 0>>

\* None
NoneId == <<"None", 0>>

StdoutId(n) == <<"stdout", n>>
StderrId(n) == <<"stderr", n>>
HandlerId(ch, n) == <<ch, n>>

\* the channels a session can attach to: borg.output.list, borg.output.stats
\* and borg.repository
Channels == {"list", "stats", "repo"}

\* OutputOptions, the fields the capture reads
DefaultOptions ==
    [raw_bytes |-> FALSE, log_json |-> FALSE,
     list_show |-> FALSE, list_json |-> FALSE,
     stats_show |-> FALSE, stats_json |-> FALSE,
     repo_show |-> FALSE, repo_json |-> FALSE,
     prog_show |-> FALSE, prog_json |-> FALSE]

\* the world: the process-wide state as one record
World ==
    [sys_stdout |-> sys_stdout, sys_stderr |-> sys_stderr, heap |-> heap,
     hheap |-> hheap, loggers |-> loggers, output |-> output]

SetWorld(w) ==
    /\ sys_stdout' = w.sys_stdout
    /\ sys_stderr' = w.sys_stderr
    /\ heap' = w.heap
    /\ hheap' = w.hheap
    /\ loggers' = w.loggers
    /\ output' = w.output

-----------------------------------------------------------------------------
(* PersistantHandler and BorgLogCapture (capture.py).                      *)

\* a log record as a channel delivers it: a level and a message
LogRecords ==
    {[level |-> "INFO", msg |-> <<"a">>],
     [level |-> "WARNING", msg |-> <<"b", " ">>],
     [level |-> "INFO", msg |-> <<" ">>],
     [level |-> "DEBUG", msg |-> <<"a">>]}

\* logging.Handler.handle's level filter, the handler's level being INFO
PassesLevel(rec) == rec.level \in {"INFO", "WARNING", "ERROR", "CRITICAL"}

\* PersistantHandler.__init__
NewHandler(json) == [records |-> <<>>, idx |-> 0, closed |-> FALSE, json |-> json]

\* self.format(record): JsonFormatter wraps the message in a JSON object,
\* logging.Formatter("%(message)s") gives the message
Format(h, rec) == [fmt |-> IF h.json THEN "json" ELSE "text", body |-> rec.msg]

\* PersistantHandler.emit: the handler after the call
PH_emit(h, rec) ==
    LET formatted == IF h.json THEN Format(h, rec)
                     ELSE [Format(h, rec) EXCEPT !.body = RStrip(@)]
    IN  IF formatted.fmt = "json" \/ formatted.body # <<>>
        THEN [h EXCEPT !.records = Append(@, formatted)]
        ELSE h

\* PersistantHandler.close
PH_close(h) == [h EXCEPT !.closed = TRUE]

\* logging.Logger.handle of one record on channel ch: every attached handler
\* whose level admits the record emits it
Logger_handle(w, ch, rec) ==
    [w EXCEPT !.hheap =
        [id \in DOMAIN @ |->
            IF id \in w.loggers[ch] /\ PassesLevel(rec)
            THEN PH_emit(@[id], rec) ELSE @[id]]]

\* BorgLogCapture.__init__: a new handler id, attached to channel ch
BLC_init(w, ch, id, log_json) ==
    [w EXCEPT !.hheap = (id :> NewHandler(log_json)) @@ @,
              !.loggers[ch] = @ \cup {id}]

\* a close() that marks the handler closed and leaves it attached
BLC_close_NoRemove(w, ch, id) ==
    [w EXCEPT !.hheap[id] = PH_close(@)]

\* BorgLogCapture.close: handler.close(), then logger.removeHandler(handler)
BLC_close(w, ch, id) ==
    [w EXCEPT !.hheap[id] = PH_close(@),
              !.loggers[ch] = @ \ {id}]

\* "\n".join(parts)
RECURSIVE JoinLines(_)
JoinLines(parts) ==
    IF parts = <<>> THEN <<>>
    ELSE IF Len(parts) = 1 THEN Head(parts)
    ELSE Head(parts) \o <<NL>> \o JoinLines(Tail(parts))

\* PersistantHandler.value: the records themselves in JSON mode, else their
\* text joined with newlines
PH_value(h) ==
    IF h.json THEN [kind |-> "records", val |-> h.records]
    ELSE [kind |-> "text",
          val |-> JoinLines([i \in 1..Len(h.records) |-> h.records[i].body])]

-----------------------------------------------------------------------------
(* OutputCapture (capture.py): the capture session.                        *)

\* a redirected stream: a ListStringIO, or in raw mode a TextIOWrapper over
\* a BytesIO, whose io.values are the chunks written to its buffer
NewStream(raw) == [raw |-> raw, io |-> NewListStringIO]

\* sys.stdout.write(s) / sys.stdout.buffer.write(s) on an open stream
Stream_write(st, s) ==
    IF st.raw THEN [st EXCEPT !.io.values = Append(@, s)]
    ELSE [st EXCEPT !.io = LSIO_write(@, s)]

\* OutputCapture.__init__: only self.ready is assigned
NewOutputCapture ==
    [ready |-> FALSE, opts |-> DefaultOptions, raw |-> FALSE,
     _stdout |-> Unset, _stderr |-> Unset,
     stdout_original |-> Unset, stderr_original |-> Unset,
     list_capture |-> Unset, stats_capture |-> Unset, repo_capture |-> Unset]

\* the attribute that holds a channel's capture, and the options that ask
\* for it
CaptureAttr(ch) ==
    CASE ch = "list" -> "list_capture"
      [] ch = "stats" -> "stats_capture"
      [] ch = "repo" -> "repo_capture"

ShowOpt(ch) ==
    CASE ch = "list" -> "list_show"
      [] ch = "stats" -> "stats_show"
      [] ch = "repo" -> "repo_show"

JsonOpt(ch) ==
    CASE ch = "list" -> "list_json"
      [] ch = "stats" -> "stats_json"
      [] ch = "repo" -> "repo_json"

\* the objects something still refers to; the others are gone once
\* __call__ rebinds the attributes that held them
LiveBuffers(w) ==
    {w.sys_stdout, w.sys_stderr, w.output._stdout, w.output._stderr,
     w.output.stdout_original, w.output.stderr_original}

LiveHandlers(w) ==
    {w.output.list_capture, w.output.stats_capture, w.output.repo_capture}
    \cup UNION {w.loggers[ch] : ch \in Channels}

Collect(w) ==
    [w EXCEPT !.heap = [id \in (DOMAIN w.heap) \cap LiveBuffers(w) |-> w.heap[id]],
              !.hheap = [id \in (DOMAIN w.hheap) \cap LiveHandlers(w) |-> w.hheap[id]]]

\* one of the three "self.x_capture = None; if self.opts.x_show: ..." blocks
OC_attach(w, ch, opts, n) ==
    IF opts[ShowOpt(ch)]
    THEN [BLC_init(w, ch, HandlerId(ch, n), opts[JsonOpt(ch)])
            EXCEPT !.output[CaptureAttr(ch)] = HandlerId(ch, n)]
    ELSE [w EXCEPT !.output[CaptureAttr(ch)] = NoneId]

\* OutputCapture.__call__, opening the n-th session
OC_call(w, opts, n) ==
    LET w1 == [w EXCEPT !.output.ready = FALSE,
                        !.output.opts = opts,
                        !.output.raw = opts.raw_bytes,
                        !.heap = (StdoutId(n) :> NewStream(opts.raw_bytes))
                                 @@ (StderrId(n) :> NewStream(FALSE)) @@ @,
                        !.output._stdout = StdoutId(n),
                        !.output.stdout_original = w.sys_stdout,
                        !.sys_stdout = StdoutId(n),
                        !.output._stderr = StderrId(n),
                        !.output.stderr_original = w.sys_stderr,
                        !.sys_stderr = StderrId(n)]
        w2 == OC_attach(w1, "list", opts, n)
        w3 == OC_attach(w2, "stats", opts, n)
        w4 == OC_attach(w3, "repo", opts, n)
    IN  Collect([w4 EXCEPT !.output.ready = TRUE])

\* OutputCapture.getvalues: the InvocationResult
OC_getvalues(w) ==
    LET o == w.output
        keys == {"stdout", "stderr"} \cup {ch \in Channels : o.opts[ShowOpt(ch)]}
    IN  [k \in keys |->
            IF k = "stdout"
            THEN IF o.raw
                 THEN [kind |-> "bytes", val |-> Join(w.heap[o._stdout].io.values)]
                 ELSE [kind |-> "text", val |-> LSIO_getvalue(w.heap[o._stdout].io).ret.val]
            ELSE IF k = "stderr"
            THEN [kind |-> "text", val |-> LSIO_getvalue(w.heap[o._stderr].io).ret.val]
            ELSE PH_value(w.hheap[o[CaptureAttr(k)]])]

\* "if self.x_capture: self.x_capture.close()"
OC_close_capture(w, ch) ==
    LET id == w.output[CaptureAttr(ch)]
    IN  IF id # NoneId THEN BLC_close(w, ch, id) ELSE w

\* the try block of close(): the owned buffers closed, the captures detached
OC_close_try(w) ==
    LET o == w.output
        w1 == [w EXCEPT !.heap[o._stdout].io.closed = IF o.raw THEN @ ELSE TRUE]
        w2 == [w1 EXCEPT !.heap[o._stderr].io.closed = TRUE]
        w3 == OC_close_capture(w2, "list")
        w4 == OC_close_capture(w3, "stats")
    IN  OC_close_capture(w4, "repo")

\* a close() that forgets the originals once it has restored them, and so
\* fails when called again
OC_close_Forgetful(w) ==
    LET o == w.output
    IN  IF o._stdout = Unset \/ o.stdout_original = NoneId
        THEN [world |-> w, raised |-> TRUE]
        ELSE [world |-> [OC_close_try(w) EXCEPT !.sys_stdout = o.stdout_original,
                                                !.sys_stderr = o.stderr_original,
                                                !.output.stdout_original = NoneId,
                                                !.output.stderr_original = NoneId,
                                                !.output.ready = FALSE],
              raised |-> FALSE]

\* a close() that closes the buffers and detaches the captures and leaves
\* the streams redirected
OC_close_NoRestore(w) ==
    LET o == w.output
    IN  IF o._stdout = Unset THEN [world |-> w, raised |-> TRUE]
        ELSE [world |-> [OC_close_try(w) EXCEPT !.output.ready = FALSE],
              raised |-> FALSE]

\* OutputCapture.close: the world after it, and whether it raised.  Before
\* the first __call__ self.raw and self.stdout_original do not exist, and
\* both the try block and the finally block raise AttributeError.
OC_close(w) ==
    LET o == w.output
    IN  IF o._stdout = Unset THEN [world |-> w, raised |-> TRUE]
        ELSE [world |-> [OC_close_try(w) EXCEPT !.sys_stdout = o.stdout_original,
                                                !.sys_stderr = o.stderr_original,
                                                !.output.ready = FALSE],
              raised |-> FALSE]

\* OutputCapture.progress().get(): the world after it, the value returned
\* and the buffer read, or AttributeError before the first __call__
OC_progress_get(w) ==
    LET id == w.output._stderr
    IN  IF id = Unset
        THEN [world |-> w, raised |-> TRUE, from |-> Unset, ret |-> NoneRet]
        ELSE [world |-> [w EXCEPT !.heap[id].io = LSIO_get(@).buf],
              raised |-> FALSE, from |-> id, ret |-> LSIO_get(w.heap[id].io).ret]

-----------------------------------------------------------------------------
(* json.loads on the texts of the model, and _loads_json_lines             *)
(* (borgapi.py).  A parsed value is kept as its compact JSON text: two     *)
(* parses give equal Python values exactly when these texts are equal.     *)

Q == "\""

\* json.decoder.WHITESPACE.match(s, i).end(): the whitespace json skips
\* is, among the characters of the model, the space and the line breaks
RECURSIVE SkipWs(_, _)
SkipWs(s, i) == IF i <= Len(s) /\ s[i] \in {" ", NL, CR} THEN SkipWs(s, i + 1) ELSE i

\* the end of the number that starts at i (i itself if none does); the
\* digits of the model are 1 and 2
RECURSIVE NumberEnd(_, _)
NumberEnd(s, i) == IF i <= Len(s) /\ s[i] \in {"1", "2"} THEN NumberEnd(s, i + 1) ELSE i

\* what a scan gives: the value's compact text and the index after it, or
\* the JSONDecodeError
JsonFail == [ok |-> FALSE, end |-> 0, val |-> <<>>]

JsonOk(end, val) == [ok |-> TRUE, end |-> end, val |-> val]

\* scanstring from the opening quote at i: the string ends at the next
\* quote; a control character before it, or no quote at all, is an error
ScanString(s, i) ==
    LET stops == {k \in (i + 1)..Len(s) : s[k] \in {Q, NL, CR}}
    IN  IF stops = {} THEN JsonFail
        ELSE LET k == CHOOSE x \in stops : \A y \in stops : x <= y
             IN  IF s[k] = Q THEN JsonOk(k + 1, SubSeq(s, i, k)) ELSE JsonFail

\* dict(pairs): a repeated key keeps its first place and takes the last value
PutPair(pairs, k, v) ==
    IF \E n \in 1..Len(pairs) : pairs[n].k = k
    THEN [n \in 1..Len(pairs) |-> IF pairs[n].k = k THEN [k |-> k, v |-> v] ELSE pairs[n]]
    ELSE Append(pairs, [k |-> k, v |-> v])

\* sep.join(parts)
RECURSIVE JoinWith(_, _)
JoinWith(parts, sep) ==
    IF parts = <<>> THEN <<>>
    ELSE IF Len(parts) = 1 THEN Head(parts)
    ELSE Head(parts) \o sep \o JoinWith(Tail(parts), sep)

\* the compact text of an object with these members
ObjectText(pairs) ==
    <<"{">> \o JoinWith([n \in 1..Len(pairs) |-> pairs[n].k \o <<":">> \o pairs[n].v], <<",">>)
            \o <<"}">>

\* the compact text of an array with these items
ArrayText(items) == <<"[">> \o JoinWith(items, <<",">>) \o <<"]">>

\* scan_once(s, i), with JSONObject and JSONArray: the value that starts at
\* i and the index after it.  CHOOSE r \in {f(v) : v \in {e}} : TRUE is f(e)
\* with e evaluated once.
RECURSIVE scan_once(_, _), JSONObject(_, _, _), JSONArray(_, _, _)
scan_once(s, i) ==
    IF i > Len(s) THEN JsonFail
    ELSE IF s[i] = Q THEN ScanString(s, i)
    ELSE IF s[i] = "{"
    THEN LET j == SkipWs(s, i + 1)
         IN  IF j <= Len(s) /\ s[j] = "}" THEN JsonOk(j + 1, ObjectText(<<>>))
             ELSE JSONObject(s, j, <<>>)
    ELSE IF s[i] = "["
    THEN LET j == SkipWs(s, i + 1)
         IN  IF j <= Len(s) /\ s[j] = "]" THEN JsonOk(j + 1, ArrayText(<<>>))
             ELSE JSONArray(s, j, <<>>)
    ELSE IF NumberEnd(s, i) > i THEN JsonOk(NumberEnd(s, i), SubSeq(s, i, NumberEnd(s, i) - 1))
    ELSE JsonFail

\* the members of an object from the key expected at i
JSONObject(s, i, pairs) ==
    LET member(key, v) ==
            IF ~v.ok THEN JsonFail
            ELSE LET k == SkipWs(s, v.end)
                     ps == PutPair(pairs, key.val, v.val)
                 IN  IF k > Len(s) THEN JsonFail
                     ELSE IF s[k] = "}" THEN JsonOk(k + 1, ObjectText(ps))
                     ELSE IF s[k] = ","
                     THEN JSONObject(s, SkipWs(s, k + 1), ps)
                     ELSE JsonFail
        value(key) ==
            IF ~key.ok THEN JsonFail
            ELSE LET c == SkipWs(s, key.end)
                 IN  IF c > Len(s) \/ s[c] # ":" THEN JsonFail
                     ELSE CHOOSE r \in {member(key, v) :
                                            v \in {scan_once(s, SkipWs(s, c + 1))}} : TRUE
    IN  IF i > Len(s) \/ s[i] # Q THEN JsonFail
        ELSE CHOOSE r \in {value(key) : key \in {ScanString(s, i)}} : TRUE

\* the items of an array from the value expected at i
JSONArray(s, i, items) ==
    LET item(v) ==
            IF ~v.ok THEN JsonFail
            ELSE LET k == SkipWs(s, v.end)
                 IN  IF k > Len(s) THEN JsonFail
                     ELSE IF s[k] = "]" THEN JsonOk(k + 1, ArrayText(Append(items, v.val)))
                     ELSE IF s[k] = ","
                     THEN JSONArray(s, SkipWs(s, k + 1), Append(items, v.val))
                     ELSE JsonFail
    IN  CHOOSE r \in {item(v) : v \in {scan_once(s, i)}} : TRUE

\* json.loads(s): one value with whitespace around it and nothing else;
\* ok is FALSE where loads raises JSONDecodeError
loads(s) ==
    LET whole(t) ==
            LET end(v) ==
                    IF v.ok /\ SkipWs(t, v.end) = Len(t) + 1
                    THEN [ok |-> TRUE, val |-> v.val]
                    ELSE [ok |-> FALSE, val |-> <<>>]
            IN  CHOOSE r \in {end(v) : v \in {scan_once(t, SkipWs(t, 1))}} : TRUE
    IN  CHOOSE r \in {whole(t) : t \in {s}} : TRUE

\* s.splitlines(): the lines without their line breaks
SplitLines(s) ==
    LET ls == SplitLinesKeepEnds(s)
        DropLineEnd(l) ==
            IF Len(l) >= 2 /\ l[Len(l) - 1] = CR /\ Last(l) = NL
            THEN SubSeq(l, 1, Len(l) - 2)
            ELSE IF Last(l) \in {NL, CR} THEN Front(l)
            ELSE l
    IN  [n \in 1..Len(ls) |-> DropLineEnd(ls[n])]

\* s.replace("}{", "},{")
RECURSIVE ReplaceBraces(_)
ReplaceBraces(s) ==
    IF Len(s) < 2 THEN s
    ELSE IF s[1] = "}" /\ s[2] = "{"
    THEN <<"}", ",", "{">> \o ReplaceBraces(SubSeq(s, 3, Len(s)))
    ELSE <<s[1]>> \o ReplaceBraces(Tail(s))

\* what a function hands back: kind is "json" (a parsed value, val its
\* compact text), "str" (the text val), "none" (None) or "raised"
Result(kind, val) == [kind |-> kind, val |-> val]

\* JsonFormatter.format(record): json.dumps of an object that holds the
\* message, here {"a":"<message>"}; the messages of the model have no
\* character that json.dumps escapes
JsonFormatterText(msg) == <<"{", Q, "a", Q, ":", Q>> \o msg \o <<Q, "}">>

\* a _loads_json_lines that lets the last JSONDecodeError out
LoadsJsonLinesStr_NoFallback(s) ==
    LET joined == <<"[">> \o JoinWith(SplitLines(s), <<",">>) \o <<"]">>
        multiline == <<"[">> \o ReplaceBraces(s) \o <<"]">>
    IN  IF loads(s).ok THEN Result("json", loads(s).val)
        ELSE IF loads(joined).ok THEN Result("json", loads(joined).val)
        ELSE IF loads(multiline).ok THEN Result("json", loads(multiline).val)
        ELSE Result("raised", <<>>)

\* a _loads_json_lines without the "}{" strategy
LoadsJsonLinesStr_NoBraces(s) ==
    LET joined == <<"[">> \o JoinWith(SplitLines(s), <<",">>) \o <<"]">>
    IN  IF loads(s).ok THEN Result("json", loads(s).val)
        ELSE IF loads(joined).ok THEN Result("json", loads(joined).val)
        ELSE IF s # <<>> THEN Result("str", s) ELSE Result("none", <<>>)

\* _loads_json_lines(string) for a str: the whole text, then clean (its
\* lines joined with commas), then multiline, then "string or None"
LoadsJsonLinesStr(s) ==
    LET clean == <<"[">> \o JoinWith(SplitLines(s), <<",">>) \o <<"]">>
        multiline == <<"[">> \o ReplaceBraces(s) \o <<"]">>
    IN  IF loads(s).ok THEN Result("json", loads(s).val)
        ELSE IF loads(clean).ok THEN Result("json", loads(clean).val)
        ELSE IF loads(multiline).ok THEN Result("json", loads(multiline).val)
        ELSE IF s # <<>> THEN Result("str", s) ELSE Result("none", <<>>)

\* _loads_json_lines(string): string is [type, text, items].  For a list
\* that does not parse neither branch of the handler assigns clean, and
\* loads(clean) raises UnboundLocalError; any other type (None, bytes) is
\* given back as None.
LoadsJsonLines(x) ==
    IF x.type = "str" THEN LoadsJsonLinesStr(x.text)
    ELSE IF x.type = "list"
    THEN IF loads(ArrayText(x.items)).ok
         THEN Result("json", loads(ArrayText(x.items)).val)
         ELSE Result("raised", <<>>)
    ELSE Result("none", <<>>)

\* the members of the compact text of an array (its items) or of an object
\* (its key:value pairs)
Members(t) ==
    LET RECURSIVE From(_, _)
        From(i, acc) ==
            LET v == scan_once(t, IF t[1] = "{" THEN ScanString(t, i).end + 1 ELSE i)
                more == Append(acc, SubSeq(t, i, v.end - 1))
            IN  IF t[v.end] = "," THEN From(v.end + 1, more) ELSE more
    IN  IF Len(t) <= 2 THEN <<>> ELSE From(2, <<>>)

\* a Python value of a result: a str or bytes (text), a list of parsed
\* values or of record texts (items), a dict or a number ("item", text its
\* compact text), the int a bytes gives when indexed, None
Value(type, text, items) == [type |-> type, text |-> text, items |-> items]

\* the Python value json.loads gives for the compact text t
JsonValue(t) ==
    IF t[1] = "[" THEN Value("list", <<>>, Members(t))
    ELSE IF t[1] = Q THEN Value("str", SubSeq(t, 2, Len(t) - 1), <<>>)
    ELSE Value("item", t, <<>>)

\* _build_result(*results): results is a sequence of [name, value].  kind
\* is "none" (None), "value" (one channel's value), "map" (the dict) or
\* "raised".  With one result, a value of length one is replaced by
\* value[0]: the only element of a list, the int of a single byte, a
\* KeyError on a dict; len() of None or of a number is a TypeError.
BuildResult(results) ==
    LET none == [kind |-> "none", value |-> Value("none", <<>>, <<>>), map |-> <<>>]
        v == results[1].value
        dict == v.type = "item" /\ v.text[1] = "{"
    IN  IF Len(results) = 0 THEN none
        ELSE IF Len(results) = 1
        THEN IF v.type \in {"none", "int"} \/ (v.type = "item" /\ ~dict)
             THEN [none EXCEPT !.kind = "raised"]
             ELSE IF dict /\ Len(Members(v.text)) = 1 THEN [none EXCEPT !.kind = "raised"]
             ELSE IF v.type = "list" /\ Len(v.items) = 1
             THEN [none EXCEPT !.kind = "value", !.value = JsonValue(v.items[1])]
             ELSE IF v.type = "bytes" /\ Len(v.text) = 1
             THEN [none EXCEPT !.kind = "value", !.value = Value("int", v.text, <<>>)]
             ELSE IF v.type = "str" /\ Len(v.text) = 1
             THEN [none EXCEPT !.kind = "value", !.value = Value("str", <<v.text[1]>>, <<>>)]
             ELSE [none EXCEPT !.kind = "value", !.value = v]
        ELSE [none EXCEPT !.kind = "map",
                          !.map = [k \in {results[n].name : n \in 1..Len(results)} |->
                                      (CHOOSE r \in {results[n] : n \in 1..Len(results)} :
                                           r.name = k).value]]

\* the end of a command method after _run: _get_basic_results on the
\* InvocationResult out, what create, extract, compact, list and config
\* add to its list, and _build_result.  result_list.remove(("list", []))
\* and result_list.remove(("list", "")) raise ValueError unless the list
\* channel gave just that empty value.
CommandResult(call, out, opts) ==
    LET raised == [kind |-> "raised", value |-> Value("none", <<>>, <<>>), map |-> <<>>]
        \* output[k]: a key getvalues() did not set is a KeyError
        plain(k) ==
            IF k \notin DOMAIN out THEN Value("raised", <<>>, <<>>)
            ELSE IF out[k].kind = "records"
            THEN Value("list", <<>>, [i \in 1..Len(out[k].val) |->
                                         JsonFormatterText(out[k].val[i].body)])
            ELSE Value(IF out[k].kind = "bytes" THEN "bytes" ELSE "str", out[k].val, <<>>)
        loaded(k) ==
            IF k \notin DOMAIN out THEN Value("raised", <<>>, <<>>)
            ELSE CHOOSE v \in {IF r.kind = "json" THEN JsonValue(r.val)
                               ELSE Value(r.kind, r.val, <<>>) :
                               r \in {LoadsJsonLines(x) : x \in {plain(k)}}} : TRUE
        chan(show, name, k, json) == [show |-> show, name |-> name, k |-> k, json |-> json]
        \* the three channels of _get_basic_results, then the command's own
        chans ==
            << chan(opts.stats_show, "stats", IF opts.stats_json THEN "stdout" ELSE "stats",
                    opts.stats_json),
               chan(opts.list_show, "list", "list", opts.list_json),
               chan(opts.prog_show, "prog", "stderr", opts.prog_json),
               CASE call.cmd = "create" ->
                        chan(opts.list_show /\ opts.list_json, "list", "stderr", TRUE)
                 [] call.cmd = "extract" -> chan(opts.raw_bytes, "extract", "stdout", FALSE)
                 [] call.cmd = "compact" ->
                        chan(opts.repo_show, "compact", "repo", opts.repo_json)
                 [] call.cmd = "mount" -> chan(FALSE, "mount", "stdout", FALSE)
                 [] call.cmd = "list" -> chan(opts.list_show, "list", "stdout", opts.list_json)
                 [] call.cmd = "config" -> chan(opts.list_show, "list", "stdout", FALSE) >>
        entries ==
            [n \in 1..4 |->
                IF ~chans[n].show THEN <<>>
                ELSE <<[name |-> chans[n].name,
                        value |-> IF chans[n].json THEN loaded(chans[n].k)
                                  ELSE plain(chans[n].k)]>>]
        \* the tuple result_list.remove(...) is given: ("list", []) or ("list", "")
        empty ==
            [name |-> "list",
             value |-> IF call.cmd = "config" \/ (call.cmd = "list" /\ ~opts.list_json)
                       THEN Value("str", <<>>, <<>>) ELSE Value("list", <<>>, <<>>)]
        command(e) ==
            LET basic == e[1] \o e[2] \o e[3]
                removes == /\ opts.list_show
                           /\ \/ call.cmd = "create" /\ opts.list_json
                              \/ call.cmd \in {"list", "config"}
                result_list ==
                    (IF removes THEN SelectSeq(basic, LAMBDA r : r # empty) ELSE basic) \o e[4]
            IN  IF \E n \in 1..Len(basic) : basic[n].value.type = "raised" THEN raised
                ELSE IF removes /\ \A n \in 1..Len(basic) : basic[n] # empty THEN raised
                ELSE IF e[4] # <<>> /\ e[4][1].value.type = "raised" THEN raised
                ELSE BuildResult(result_list)
    IN  CHOOSE r \in {command(e) : e \in {entries}} : TRUE

-----------------------------------------------------------------------------
(* The option schemas (options.py).  A field name is kept as its           *)
(* characters, a value as a Value: a bool (text <<"True">> or <<"False">>),*)
(* an int (its digits), a str, a list of str, or None.                     *)

\* the field names of the model, and zz, a key no schema declares
FieldName ==
    [debug |-> <<"d", "e", "b", "u", "g">>,
     debug_topic |-> <<"d", "e", "b", "u", "g", "_", "t", "o", "p", "i", "c">>,
     log_json |-> <<"l", "o", "g", "_", "j", "s", "o", "n">>,
     lock_wait |-> <<"l", "o", "c", "k", "_", "w", "a", "i", "t">>,
     umask |-> <<"u", "m", "a", "s", "k">>,
     exclude |-> <<"e", "x", "c", "l", "u", "d", "e">>,
     pattern |-> <<"p", "a", "t", "t", "e", "r", "n">>,
     exclude_caches |-> <<"e", "x", "c", "l", "u", "d", "e", "_", "c", "a", "c", "h", "e", "s">>,
     exclude_if_present |-> <<"e", "x", "c", "l", "u", "d", "e", "_", "i", "f", "_", "p", "r", "e", "s", "e", "n", "t">>,
     stats |-> <<"s", "t", "a", "t", "s">>,
     list |-> <<"l", "i", "s", "t">>,
     filter |-> <<"f", "i", "l", "t", "e", "r">>,
     foreground |-> <<"f", "o", "r", "e", "g", "r", "o", "u", "n", "d">>,
     o |-> <<"o">>,
     zz |-> <<"z", "z">>]

\* cls.__dataclass_fields__ in declaration order, inherited fields first.
\* Of the nineteen fields of CommonOptions, the nine of ExclusionInput and
\* the eleven of CreateOptional the model keeps those below.
Fields(cls) ==
    LET none == Value("none", <<>>, <<>>)
        false == Value("bool", <<"False">>, <<>>)
        F(name, type, default) == [name |-> name, type |-> type, default |-> default]
    IN  CASE cls = "CommonOptions" ->
                <<F(FieldName.debug, "bool", false), F(FieldName.debug_topic, "list", none),
                  F(FieldName.log_json, "bool", false), F(FieldName.lock_wait, "int", none),
                  F(FieldName.umask, "str", none)>>
          [] cls = "ExclusionInput" ->
                <<F(FieldName.exclude, "list", none), F(FieldName.pattern, "list", none),
                  F(FieldName.exclude_caches, "bool", false),
                  F(FieldName.exclude_if_present, "list", none)>>
          [] cls = "CreateOptional" ->
                <<F(FieldName.stats, "bool", false), F(FieldName.list, "bool", false),
                  F(FieldName.filter, "str", none)>>
          [] cls = "MountOptional" ->
                <<F(FieldName.foreground, "bool", Value("bool", <<"True">>, <<>>)),
                  F(FieldName.o, "str", none)>>

Digits == {"0", "1", "7"}

\* re.match(r"^[0-9]{4}", umask): four digits at the start
MatchesFourDigits(u) == Len(u) >= 4 /\ \A i \in 1..4 : u[i] \in Digits

\* OptionsBase.convert_name
convert_name(value) ==
    <<"-", "-">> \o [i \in 1..Len(value) |-> IF value[i] = "_" THEN "-" ELSE value[i]]

\* a schema left to the __init__ that @dataclass generates, which takes the
\* declared fields only: an undeclared keyword is a TypeError
Construct_Generated(cls, kwargs) ==
    LET fields == Fields(cls)
        names == {fields[i].name : i \in 1..Len(fields)}
        set == [n \in names |->
                   IF n \in DOMAIN kwargs THEN kwargs[n]
                   ELSE (CHOOSE f \in {fields[i] : i \in 1..Len(fields)} : f.name = n).default]
    IN  IF DOMAIN kwargs \subseteq names THEN [exc |-> "none", inst |-> set]
        ELSE [exc |-> "TypeError", inst |-> set]

\* options_class(**kwargs): OptionsBase.__init__ sets the keys the class
\* declares and leaves the others to their defaults; then CommonOptions
\* reads self.exclude for a str debug_topic and matches the umask, and
\* ExclusionOptions and ExclusionInput wrap a str in a list.  exc is "none"
\* or the exception raised.
Construct(cls, kwargs) ==
    LET fields == Fields(cls)
        set == [n \in {fields[i].name : i \in 1..Len(fields)} |->
                   IF n \in DOMAIN kwargs THEN kwargs[n]
                   ELSE (CHOOSE f \in {fields[i] : i \in 1..Len(fields)} : f.name = n).default]
        wrapped == [n \in DOMAIN set |->
                       IF set[n].type = "str"
                          /\ n \in {FieldName.exclude, FieldName.pattern,
                                    FieldName.exclude_if_present}
                       THEN Value("list", <<>>, <<set[n].text>>) ELSE set[n]]
        umask == set[FieldName.umask]
    IN  IF cls = "CommonOptions"
        THEN IF set[FieldName.debug_topic].type = "str"
             THEN [exc |-> "AttributeError", inst |-> set]
             ELSE IF umask.type = "str" /\ umask.text # <<>> /\ ~MatchesFourDigits(umask.text)
             THEN [exc |-> "ValueError", inst |-> set]
             ELSE [exc |-> "none", inst |-> set]
        ELSE IF cls = "ExclusionInput" THEN [exc |-> "none", inst |-> wrapped]
        ELSE [exc |-> "none", inst |-> set]

\* a parse that walks the fields from the last to the first
parse_Backwards(cls, inst) ==
    LET fields == Fields(cls)
        tokens(f) ==
            LET attr == inst[f.name]
                flag == Value("str", convert_name(f.name), <<>>)
            IN  IF attr.type # "none" /\ f.default # attr
                THEN CASE f.type = "bool" -> <<flag>>
                       [] f.type \in {"str", "int"} -> <<flag, attr>>
                       [] f.type = "list" ->
                            Join([i \in 1..Len(attr.items) |->
                                     <<flag, Value("str", attr.items[i], <<>>)>>])
                ELSE <<>>
    IN  Join([i \in 1..Len(fields) |-> tokens(fields[Len(fields) + 1 - i])])

\* OptionsBase.parse on an instance of cls: the tokens, which are Values
parse(cls, inst) ==
    LET fields == Fields(cls)
        tokens(f) ==
            LET attr == inst[f.name]
                flag == Value("str", convert_name(f.name), <<>>)
            IN  IF attr.type # "none" /\ f.default # attr
                THEN CASE f.type = "bool" -> <<flag>>
                       [] f.type \in {"str", "int"} -> <<flag, attr>>
                       [] f.type = "list" ->
                            IF attr.type = "str"
                            THEN Join([i \in 1..Len(attr.text) |->
                                          <<flag, Value("str", <<attr.text[i]>>, <<>>)>>])
                            ELSE Join([i \in 1..Len(attr.items) |->
                                          <<flag, Value("str", attr.items[i], <<>>)>>])
                ELSE <<>>
    IN  Join([i \in 1..Len(fields) |-> tokens(fields[i])])

\* a create that puts the verb before the common flags
CreateArgs_VerbFirst(api, options, archive, paths) ==
    LET common_options == Construct("CommonOptions", options @@ api.options)
        create_options == Construct("CreateOptional", options @@ api.defaults)
        exclusion == Construct("ExclusionInput", options @@ api.options)
        arg_list == <<Value("str", <<"c", "r", "e", "a", "t", "e">>, <<>>)>> \o parse("CommonOptions", common_options.inst)
                    \o parse("CreateOptional", create_options.inst)
                    \o parse("ExclusionInput", exclusion.inst)
                    \o <<archive>> \o paths
        args == <<Value("str", <<"b", "o", "r", "g", "a", "p", "i">>, <<>>)>> \o arg_list
    IN  [exc |-> common_options.exc, common |-> common_options.inst,
         command |-> create_options.inst, group |-> exclusion.inst,
         args |-> [i \in 1..Len(args) |-> Value("str", args[i].text, <<>>)]]

\* a create that does not look at the stored defaults of the command
CreateArgs_NoStoredDefaults(api, options, archive, paths) ==
    LET common_options == Construct("CommonOptions", options @@ api.options)
        create_options == Construct("CreateOptional", options)
        exclusion == Construct("ExclusionInput", options @@ api.options)
        arg_list == parse("CommonOptions", common_options.inst) \o <<Value("str", <<"c", "r", "e", "a", "t", "e">>, <<>>)>>
                    \o parse("CreateOptional", create_options.inst)
                    \o parse("ExclusionInput", exclusion.inst)
                    \o <<archive>> \o paths
        args == <<Value("str", <<"b", "o", "r", "g", "a", "p", "i">>, <<>>)>> \o arg_list
    IN  [exc |-> common_options.exc, common |-> common_options.inst,
         command |-> create_options.inst, group |-> exclusion.inst,
         args |-> [i \in 1..Len(args) |-> Value("str", args[i].text, <<>>)]]

\* BorgAPI.create up to the argument list _run hands to the engine.  api
\* holds self.options and self.optionals.defaults["create"]: _get_option
\* lays the call's options over self.options, CommandOptions.get over the
\* stored defaults of the command.  FilesystemOptions and ArchiveInput give
\* no tokens for the keys of the model.  _run puts "borgapi" first and
\* takes str() of every token.
CreateArgs(api, options, archive, paths) ==
    LET common_options == Construct("CommonOptions", options @@ api.options)
        create_options == Construct("CreateOptional", options @@ api.defaults)
        exclusion == Construct("ExclusionInput", options @@ api.options)
        arg_list == parse("CommonOptions", common_options.inst) \o <<Value("str", <<"c", "r", "e", "a", "t", "e">>, <<>>)>>
                    \o parse("CreateOptional", create_options.inst)
                    \o parse("ExclusionInput", exclusion.inst)
                    \o <<archive>> \o paths
        args == <<Value("str", <<"b", "o", "r", "g", "a", "p", "i">>, <<>>)>> \o arg_list
    IN  [exc |-> common_options.exc, common |-> common_options.inst,
         command |-> create_options.inst, group |-> exclusion.inst,
         args |-> [i \in 1..Len(args) |-> Value("str", args[i].text, <<>>)]]

\* BorgAPI.config(repository, *changes, **options) up to the argument lists
\* _run hands to the engine, one per call of _run.  new_args is the list
\* arg_list itself, not a copy: each change is appended to it, and _run
\* inserts "borgapi" at its head before it takes str() of every token into
\* a list of its own.  Without changes _run is called once.  ConfigOptional
\* and ExclusionOutput give no tokens for the keys of the model.
ConfigArgs(api, options, repository, changes) ==
    LET common_options == Construct("CommonOptions", options @@ api.options)
        borgapi == Value("str", <<"b", "o", "r", "g", "a", "p", "i">>, <<>>)
        base == parse("CommonOptions", common_options.inst)
                \o <<Value("str", <<"c", "o", "n", "f", "i", "g">>, <<>>), repository>>
        RECURSIVE Loop(_, _)
        Loop(arg_list, cs) ==
            IF cs = <<>> THEN <<>>
            ELSE LET new_args == <<borgapi>> \o arg_list \o Head(cs)
                 IN  <<new_args>> \o Loop(new_args, Tail(cs))
    IN  [exc |-> common_options.exc, base |-> base,
         runs |-> IF changes = <<>> THEN <<<<borgapi>> \o base>> ELSE Loop(base, changes)]

\* BorgAPIBase.__init__(options=..., log_json=...): self.options is the
\* dict given (or a new one); with log_json the constructor calls
\* self.options.set(...), a method a dict does not have, and raises before
\* archiver.log_json is assigned.  exc is "none" or the exception raised.
BorgAPIBase_init(options, log_json) ==
    IF log_json
    THEN [exc |-> "AttributeError", options |-> options, archiver_log_json |-> FALSE]
    ELSE [exc |-> "none", options |-> options, archiver_log_json |-> log_json]

-----------------------------------------------------------------------------
(* Command dispatch (borgapi.py): a command method and _run.               *)

NoExc == [cls |-> "none", type |-> "", msg |-> ""]

\* what the engine entry point can raise: two borg errors, and an exception
\* that is no Exception (a KeyboardInterrupt delivered during the call)
EngineErrors ==
    {[cls |-> "Exception", type |-> "AlreadyExists", msg |-> "m1"],
     [cls |-> "Exception", type |-> "DoesNotExist", msg |-> "m2"],
     [cls |-> "BaseException", type |-> "KeyboardInterrupt", msg |-> ""]}

UmaskError == [cls |-> "Exception", type |-> "ValueError", msg |-> "umask"]

AttrError == [cls |-> "Exception", type |-> "AttributeError", msg |-> ""]

ClosedFileError == [cls |-> "Exception", type |-> "ValueError", msg |-> "closed file"]

\* what building the final result raises: ValueError from list.remove,
\* TypeError or KeyError from _build_result, UnboundLocalError from
\* _loads_json_lines
ResultError == [cls |-> "Exception", type |-> "result", msg |-> ""]

\* the public command methods of BorgAPI (CMDS less set_environ and
\* unset_environ)
CMDS ==
    {"init", "create", "extract", "check", "rename", "list", "diff", "delete", "prune",
     "compact", "info", "mount", "umount", "key_change_passphrase", "key_export",
     "key_import", "upgrade", "recreate", "import_tar", "export_tar", "serve", "config",
     "with_lock", "break_lock", "benchmark_crud"}

\* the keys of CommandOptions.optional_classes
optional_classes ==
    {"init", "create", "extract", "check", "list", "diff", "delete", "prune", "info",
     "mount", "key_export", "key_import", "upgrade", "export_tar", "serve", "config"}

\* what the method of command cmd does with self.optionals before it calls
\* _run: six methods do not use it; the others call get(cmd, options),
\* which raises ValueError for a command without an entry, except upgrade
\* and serve, which call to_list(cmd, options) and then .parse() on the
\* list it returns
OptionalsError(cmd) ==
    IF cmd \in {"rename", "umount", "key_change_passphrase", "with_lock", "break_lock",
                "benchmark_crud"}
    THEN NoExc
    ELSE IF cmd \notin optional_classes
    THEN [cls |-> "Exception", type |-> "ValueError", msg |-> "optional"]
    ELSE IF cmd \in {"upgrade", "serve"} THEN AttrError
    ELSE NoExc

\* the head of a command method: the exception it raises, or NoExc.
\* CommonOptions.__init__, after the fields are set, reads self.exclude for
\* a str debug_topic, which CommonOptions does not have, and rejects the
\* umask; then the method turns to self.optionals.
OptionsError(call) ==
    IF call.debug_topic = "str" THEN AttrError
    ELSE IF ~call.umask.none /\ call.umask.val # <<>> /\ ~MatchesFourDigits(call.umask.val)
    THEN UmaskError
    ELSE OptionalsError(call.cmd)

\* the OutputOptions a command method builds from its options
OutputOptionsFor(call) ==
    CASE call.cmd = "create" ->
            [DefaultOptions EXCEPT !.log_json = call.log_json,
                                   !.stats_show = call.stats,
                                   !.list_show = call.list,
                                   !.list_json = call.log_json,
                                   !.prog_show = call.progress,
                                   !.prog_json = call.log_json]
      [] call.cmd = "extract" ->
            [DefaultOptions EXCEPT !.raw_bytes = call.stdout,
                                   !.log_json = call.log_json,
                                   !.list_show = call.list,
                                   !.list_json = call.log_json,
                                   !.prog_show = call.progress,
                                   !.prog_json = call.log_json]
      [] call.cmd = "compact" ->
            [DefaultOptions EXCEPT !.log_json = call.log_json,
                                   !.repo_show = call.verbose,
                                   !.repo_json = call.log_json,
                                   !.prog_show = call.progress,
                                   !.prog_json = call.log_json]
      [] call.cmd = "mount" ->
            [DefaultOptions EXCEPT !.log_json = call.log_json,
                                   !.prog_show = call.progress,
                                   !.prog_json = call.log_json]
      \* list_json is json_lines or json, options the calls of the model
      \* leave at their default
      [] call.cmd = "list" ->
            [DefaultOptions EXCEPT !.log_json = call.log_json,
                                   !.list_show = TRUE,
                                   !.prog_show = call.progress,
                                   !.prog_json = call.log_json]
      [] call.cmd = "config" ->
            [DefaultOptions EXCEPT !.log_json = call.log_json,
                                   !.list_show = call.list,
                                   !.prog_show = call.progress,
                                   !.prog_json = call.log_json]

\* a call: the command and the options it is given
NoCall ==
    [cmd |-> "none", umask |-> NoneRet, debug_topic |-> "none",
     log_json |-> FALSE, progress |-> FALSE, list |-> FALSE, stats |-> FALSE,
     stdout |-> FALSE, verbose |-> FALSE]

UmaskInputs ==
    {NoneRet, Some(<<"0", "0", "7", "7">>), Some(<<"0", "7", "7">>),
     Some(<<"a", "0", "7", "7">>)}

\* create(list=, stats=, log_json=), extract(stdout=, list=), extract(list=,
\* log_json=), compact(), list(), config(list=) without changes, and calls
\* with a umask or a debug_topic
Calls ==
    {[NoCall EXCEPT !.cmd = "create", !.list = l, !.stats = s, !.log_json = j] :
        l \in BOOLEAN, s \in BOOLEAN, j \in BOOLEAN}
    \cup
    {[NoCall EXCEPT !.cmd = "create", !.list = TRUE, !.umask = u, !.debug_topic = d] :
        u \in UmaskInputs, d \in {"none", "list"}}
    \cup
    {[NoCall EXCEPT !.cmd = "extract", !.stdout = r, !.list = l] :
        r \in BOOLEAN, l \in BOOLEAN}
    \cup
    {[NoCall EXCEPT !.cmd = "extract", !.debug_topic = "str"],
     [NoCall EXCEPT !.cmd = "extract", !.list = TRUE, !.log_json = TRUE],
     [NoCall EXCEPT !.cmd = "compact"],
     [NoCall EXCEPT !.cmd = "list"],
     [NoCall EXCEPT !.cmd = "config", !.list = TRUE]}

\* the locals of a call in progress; listed keeps, for a call that shows the
\* list channel, the messages the engine logged on it at INFO or above
NoFrame ==
    [call |-> NoCall, opts |-> DefaultOptions, prev_json |-> FALSE, steps |-> 0,
     session |-> 0, engine_exc |-> NoExc, exc |-> NoExc, logged |-> <<>>,
     capture_result |-> <<>>, listed |-> <<>>]

\* how a call ended: call is the call as the caller made it; kind is "none",
\* "returned" or "raised"; site is where a raised exception came from;
\* result is what _run returned and final what the command method returned
NoOutcome ==
    [op |-> "none", call |-> NoCall, kind |-> "none", site |-> "", exc |-> NoExc,
     engine_exc |-> NoExc, logged |-> <<>>, result |-> <<>>, session |-> 0,
     final |-> BuildResult(<<>>)]

InSession(t) == pc[t] \in {"engine", "exit"}

\* the state the capture-free parts of the model leave alone
restVars == <<bufVars, arrived, pollVars, fnCall, forked, envVars>>

\* a call whose options were accepted, without the fields that are consumed
\* by CommonOptions
Accepted(c) == [c EXCEPT !.umask = NoneRet, !.debug_topic = "none"]

\* a command method that opens the capture session before it builds and
\* validates its options
Invoke_AfterOpen(t, callSet) ==
    /\ pc[t] = "idle"
    /\ ncalls < MaxCalls
    /\ ncalls' = ncalls + 1
    /\ nsessions' = nsessions + 1
    /\ \E c \in callSet :
        /\ SetWorld(OC_call(World, OutputOptionsFor(c), nsessions + 1))
        /\ IF OptionsError(c) # NoExc
           THEN /\ outcome' = [outcome EXCEPT ![t] =
                        [NoOutcome EXCEPT !.op = "call", !.call = c, !.kind = "raised",
                                          !.site = "options",
                                          !.exc = OptionsError(c)]]
                /\ UNCHANGED <<pc, frame>>
           ELSE /\ outcome' = [outcome EXCEPT ![t] = NoOutcome]
                /\ frame' = [frame EXCEPT ![t] =
                        [NoFrame EXCEPT !.call = Accepted(c),
                                        !.opts = OutputOptionsFor(c),
                                        !.session = nsessions + 1]]
                /\ pc' = [pc EXCEPT ![t] = "engine"]
    /\ UNCHANGED <<archiver_log_json, console, restVars>>

\* the caller invokes a command method on thread t (BorgAPIAsync: the pool
\* runs it on worker t).  The head of the method builds CommonOptions first,
\* and a value it rejects ends the call; then come the argument list and the
\* OutputOptions.
Invoke(t, callSet) ==
    /\ pc[t] = "idle"
    /\ ncalls < MaxCalls
    /\ ncalls' = ncalls + 1
    /\ \E c \in callSet :
        IF OptionsError(c) # NoExc
        THEN /\ outcome' = [outcome EXCEPT ![t] =
                    [NoOutcome EXCEPT !.op = "call", !.call = c, !.kind = "raised",
                                      !.site = "options",
                                      !.exc = OptionsError(c)]]
             /\ UNCHANGED <<pc, frame>>
        ELSE /\ outcome' = [outcome EXCEPT ![t] = NoOutcome]
             /\ frame' = [frame EXCEPT ![t] =
                    [NoFrame EXCEPT !.call = Accepted(c),
                                    !.opts = OutputOptionsFor(c)]]
             /\ pc' = [pc EXCEPT ![t] = "run"]
    /\ UNCHANGED <<worldVars, nsessions, archiver_log_json, console, restVars>>

\* _run up to and into the with statement: archiver.log_json is saved and
\* set to the parsed --log-json, and self.output(output_options) opens the
\* session
OpenSession(t) ==
    /\ pc[t] = "run"
    /\ archiver_log_json' = frame[t].call.log_json
    /\ SetWorld(OC_call(World, frame[t].opts, nsessions + 1))
    /\ nsessions' = nsessions + 1
    /\ frame' = [frame EXCEPT ![t].prev_json = archiver_log_json,
                              ![t].session = nsessions + 1]
    /\ pc' = [pc EXCEPT ![t] = "engine"]
    /\ UNCHANGED <<outcome, ncalls, console, restVars>>

\* self._logger.error(e): the record logged for exception e
ErrorRecord(e) == [level |-> "ERROR", exc |-> e]

\* the except clause of _run: an Exception is logged at error severity; and
\* every exception goes on to __exit__
Raise(t, e) ==
    /\ frame' = [frame EXCEPT ![t].steps = @ + 1,
                              ![t].engine_exc = e,
                              ![t].exc = e,
                              ![t].logged = IF e.cls = "Exception"
                                            THEN Append(@, ErrorRecord(e))
                                            ELSE @]
    /\ pc' = [pc EXCEPT ![t] = "exit"]

\* the engine writes text to sys.stdout or sys.stderr, whatever they are
\* bound to at that moment; a closed buffer raises ValueError
EngineWrite(t, texts) ==
    /\ pc[t] = "engine"
    /\ frame[t].steps < MaxEngineSteps
    /\ \E s \in texts, target \in {sys_stdout, sys_stderr} :
        IF target \notin DOMAIN heap
        THEN /\ frame' = [frame EXCEPT ![t].steps = @ + 1]
             /\ UNCHANGED <<worldVars, pc>>
        ELSE IF heap[target].io.closed
        THEN /\ Raise(t, ClosedFileError)
             /\ UNCHANGED worldVars
        ELSE /\ heap' = [heap EXCEPT ![target] = Stream_write(@, s)]
             /\ frame' = [frame EXCEPT ![t].steps = @ + 1]
             /\ UNCHANGED <<sys_stdout, sys_stderr, hheap, loggers, output, pc>>
    /\ UNCHANGED <<outcome, ncalls, nsessions, archiver_log_json, console, restVars>>

\* the engine logs a record on one of the channels
EngineEmit(t, recs) ==
    /\ pc[t] = "engine"
    /\ frame[t].steps < MaxEngineSteps
    /\ \E ch \in Channels, rec \in recs :
        /\ SetWorld(Logger_handle(World, ch, rec))
        /\ frame' = [frame EXCEPT ![t].steps = @ + 1,
                                  ![t].listed =
                                      IF ch = "list" /\ frame[t].opts.list_show /\ PassesLevel(rec)
                                      THEN Append(@, rec.msg) ELSE @]
    /\ UNCHANGED <<pc, outcome, ncalls, nsessions, archiver_log_json, console, restVars>>

\* func(args) returns: the else clause reads the buffers out
EngineReturn(t) ==
    /\ pc[t] = "engine"
    /\ frame' = [frame EXCEPT ![t].capture_result = OC_getvalues(World)]
    /\ pc' = [pc EXCEPT ![t] = "exit"]
    /\ UNCHANGED <<worldVars, outcome, ncalls, nsessions, archiver_log_json, console, restVars>>

\* func(args) raises
EngineRaise(t, errors) ==
    /\ pc[t] = "engine"
    /\ \E e \in errors : Raise(t, e)
    /\ UNCHANGED <<worldVars, outcome, ncalls, nsessions, archiver_log_json, console, restVars>>

\* a __exit__ that swallows the exception of the block (returns True)
ExitSession_Swallow(t) ==
    /\ pc[t] = "exit"
    /\ SetWorld(OC_close(World).world)
    /\ pc' = [pc EXCEPT ![t] = "after"]
    /\ frame' = [frame EXCEPT ![t].exc = NoExc]
    /\ UNCHANGED <<outcome, ncalls, nsessions, archiver_log_json, console, restVars>>

\* OutputCapture.__exit__: close(), and the exception of the block, if any,
\* propagates to the caller of the command
ExitSession(t) ==
    /\ pc[t] = "exit"
    /\ SetWorld(OC_close(World).world)
    /\ LET e == IF OC_close(World).raised THEN AttrError ELSE frame[t].exc
       IN  IF e # NoExc
           THEN /\ pc' = [pc EXCEPT ![t] = "idle"]
                /\ outcome' = [outcome EXCEPT ![t] =
                        [NoOutcome EXCEPT !.op = "call", !.call = frame[t].call,
                                          !.kind = "raised", !.site = "engine",
                                          !.exc = e,
                                          !.engine_exc = frame[t].engine_exc,
                                          !.logged = frame[t].logged,
                                          !.session = frame[t].session]]
                /\ frame' = [frame EXCEPT ![t] = NoFrame]
           ELSE /\ pc' = [pc EXCEPT ![t] = "after"]
                /\ UNCHANGED <<frame, outcome>>
    /\ UNCHANGED <<ncalls, nsessions, archiver_log_json, console, restVars>>

\* the tail of _run and of the command method: archiver.log_json is put
\* back, the InvocationResult returned and the final result built from it
RunReturn(t) ==
    /\ pc[t] = "after"
    /\ archiver_log_json' = frame[t].prev_json
    /\ \E final \in {CommandResult(frame[t].call, frame[t].capture_result, frame[t].opts)} :
          outcome' = [outcome EXCEPT ![t] =
                [NoOutcome EXCEPT !.op = "call",
                                  !.call = frame[t].call,
                                  !.kind = IF final.kind = "raised" THEN "raised" ELSE "returned",
                                  !.site = IF final.kind = "raised" THEN "result" ELSE "",
                                  !.exc = IF final.kind = "raised" THEN ResultError ELSE NoExc,
                                  !.engine_exc = frame[t].engine_exc,
                                  !.logged = frame[t].logged,
                                  !.result = frame[t].capture_result,
                                  !.final = final,
                                  !.session = frame[t].session]]
    /\ frame' = [frame EXCEPT ![t] = NoFrame]
    /\ pc' = [pc EXCEPT ![t] = "idle"]
    /\ UNCHANGED <<worldVars, ncalls, nsessions, console, restVars>>

\* os.getpid() in the process that calls mount()
ParentPid == <<"2">>

\* the pids os.fork() can give the parent for its child
ChildPids == {<<"1">>, <<"1", "2">>}

\* the process that called mount(), from os.fork() on: pc is "none" (no
\* fork yet), "forked" or "done"; pid is what os.fork() returned to it
NoFork ==
    [pc |-> "none", pid |-> <<>>, call |-> NoCall, opts |-> DefaultOptions,
     outcome |-> NoOutcome]

\* mount() up to os.fork(): the options and the argument list are built, a
\* value CommonOptions rejects ends the call, and the process forks.  From
\* here on the state of the model is the memory of the child, where
\* os.fork() returned 0 and thread t goes on into _run; forked is the parent.
MountInvoke(t, callSet) ==
    /\ pc[t] = "idle"
    /\ forked.pc = "none"
    /\ ncalls < MaxCalls
    /\ ncalls' = ncalls + 1
    /\ \E c \in callSet, pid \in ChildPids :
        IF OptionsError(c) # NoExc
        THEN /\ outcome' = [outcome EXCEPT ![t] =
                    [NoOutcome EXCEPT !.op = "call", !.call = c, !.kind = "raised",
                                      !.site = "options",
                                      !.exc = OptionsError(c)]]
             /\ UNCHANGED <<pc, frame, forked, envVars>>
        ELSE /\ outcome' = [outcome EXCEPT ![t] = NoOutcome]
             /\ frame' = [frame EXCEPT ![t] =
                    [NoFrame EXCEPT !.call = Accepted(c),
                                    !.opts = OutputOptionsFor(c)]]
             /\ pc' = [pc EXCEPT ![t] = "run"]
             /\ forked' = [NoFork EXCEPT !.pc = "forked", !.pid = pid, !.call = c,
                                         !.opts = OutputOptionsFor(c)]
    /\ UNCHANGED <<worldVars, nsessions, archiver_log_json, console, bufVars, arrived,
                   pollVars, fnCall, envVars>>

\* the mapping {"pid": pid, "cid": os.getpid()} as a Python value
PidDict(pid) ==
    Value("item", <<"{", Q, "p", "i", "d", Q, ":">> \o pid
                  \o <<",", Q, "c", "i", "d", Q, ":">> \o ParentPid \o <<"}">>, <<>>)

\* mount() in the parent after os.fork(): _get_basic_results({}, opts)
\* indexes the empty dict for every channel that is shown (KeyError), then
\* ("mount", {"pid": ..., "cid": ...}) is appended and _build_result called
MountParentResult(opts, pid) ==
    IF opts.stats_show \/ opts.list_show \/ opts.prog_show
    THEN [kind |-> "raised", value |-> Value("none", <<>>, <<>>), map |-> <<>>]
    ELSE BuildResult(<<[name |-> "mount", value |-> PidDict(pid)]>>)

\* the parent process returns from mount()
MountParentReturn ==
    /\ forked.pc = "forked"
    /\ \E final \in {MountParentResult(forked.opts, forked.pid)} :
          forked' = [forked EXCEPT
                        !.pc = "done",
                        !.outcome =
                            [NoOutcome EXCEPT
                                !.op = "call",
                                !.call = forked.call,
                                !.kind = IF final.kind = "raised" THEN "raised" ELSE "returned",
                                !.site = IF final.kind = "raised" THEN "result" ELSE "",
                                !.exc = IF final.kind = "raised" THEN ResultError ELSE NoExc,
                                !.final = final]]
    /\ UNCHANGED <<worldVars, callVars, bufVars, arrived, pollVars, fnCall, envVars>>

\* the caller calls self.output.close() itself, outside any call
CloseAgain(t) ==
    /\ pc[t] = "idle"
    /\ SetWorld(OC_close(World).world)
    /\ outcome' = [outcome EXCEPT ![t] =
            [NoOutcome EXCEPT !.op = "close",
                              !.kind = IF OC_close(World).raised THEN "raised" ELSE "returned",
                              !.exc = IF OC_close(World).raised THEN AttrError ELSE NoExc]]
    /\ UNCHANGED <<pc, frame, ncalls, nsessions, archiver_log_json, console, restVars>>

-----------------------------------------------------------------------------
(* Initial states: a freshly constructed BorgAPI, nothing captured yet.    *)

\* what _set_environ_defaults leaves in an environment that had none of its
\* variables: of the six, BORG_PASSPHRASE ("P") with the empty value
ENVIRONMENT_DEFAULTS == [k \in {"P"} |-> <<>>]

EmptyMap == [id \in {} |-> NoneId]

BufIdle ==
    /\ lsio = NewListStringIO
    /\ lsioCall = [op |-> "init", arg |-> <<>>, ret |-> NoneRet]
    /\ nwrites = 0

\* BorgAPIBase.__init__: self.output = OutputCapture(); archiver.log_json is
\* False on every instance the constructor returns
WorldInit(T) ==
    /\ console \in {[out |-> RealStdout, err |-> RealStderr],
                    [out |-> UserStdout, err |-> UserStderr]}
    /\ sys_stdout = console.out
    /\ sys_stderr = console.err
    /\ heap = EmptyMap
    /\ hheap = EmptyMap
    /\ loggers = [ch \in Channels |-> {}]
    /\ output = NewOutputCapture
    /\ archiver_log_json = FALSE
    /\ pc = [t \in T |-> "idle"]
    /\ frame = [t \in T |-> NoFrame]
    /\ outcome = [t \in T |-> NoOutcome]
    /\ ncalls = 0
    /\ nsessions = 0
    /\ forked = NoFork
    /\ os_environ = ENVIRONMENT_DEFAULTS
    /\ previous_dotenv = {}
    /\ envCall = [op |-> "none", n |-> 0]

LogIdle == arrived = [phase |-> "none", json |-> FALSE, recs |-> <<>>, n |-> 0]

\* no function call made
FnIdle == fnCall = [op |-> "none"]

PollIdle ==
    /\ pollPc = "idle"
    /\ pollRet = [call |-> 0, from |-> Unset, ret |-> NoneRet]

-----------------------------------------------------------------------------
(* SpecBuffer: one ListStringIO under any interleaving of its methods.     *)

\* every text of at most two characters, and a few longer ones
WriteInputs ==
    {<<>>} \cup {<<c>> : c \in Chars} \cup {<<c, d>> : c \in Chars, d \in Chars}
    \cup {<<"a", NL, "a">>, <<"a", " ", NL>>, <<"a", CR, NL>>, <<" ", "a", NL>>}

BufInit == BufIdle /\ WorldInit({}) /\ console.out = RealStdout /\ LogIdle /\ PollIdle /\ FnIdle

BufWrite ==
    \E s \in WriteInputs :
        /\ nwrites < MaxWrites
        /\ lsio' = LSIO_write(lsio, s)
        /\ lsioCall' = [op |-> "write", arg |-> s, ret |-> NoneRet]
        /\ nwrites' = nwrites + 1
        /\ UNCHANGED <<worldVars, callVars, arrived, pollVars, fnCall, forked, envVars>>

BufGet ==
    /\ lsio' = LSIO_get(lsio).buf
    /\ lsioCall' = [op |-> "get", arg |-> <<>>, ret |-> LSIO_get(lsio).ret]
    /\ UNCHANGED <<nwrites, worldVars, callVars, arrived, pollVars, fnCall, forked, envVars>>

BufGetAll ==
    /\ lsio' = LSIO_get_all(lsio).buf
    /\ lsioCall' = [op |-> "get_all", arg |-> <<>>, ret |-> LSIO_get_all(lsio).ret]
    /\ UNCHANGED <<nwrites, worldVars, callVars, arrived, pollVars, fnCall, forked, envVars>>

BufGetValues ==
    /\ lsio' = LSIO_getvalue(lsio).buf
    /\ lsioCall' = [op |-> "getvalues", arg |-> <<>>, ret |-> LSIO_getvalue(lsio).ret]
    /\ UNCHANGED <<nwrites, worldVars, callVars, arrived, pollVars, fnCall, forked, envVars>>

BufNext == BufWrite \/ BufGet \/ BufGetAll \/ BufGetValues

SpecBuffer == BufInit /\ [][BufNext]_vars

-----------------------------------------------------------------------------
(* SpecLog: one BorgLogCapture on the list channel, which emits before,    *)
(* during and after the capture.                                           *)

LogHandler == HandlerId("list", 1)

LogInit == BufIdle /\ WorldInit({}) /\ console.out = RealStdout /\ LogIdle /\ PollIdle /\ FnIdle

\* BorgLogCapture("borg.output.list", json)
LogAttach ==
    /\ arrived.phase = "none"
    /\ \E json \in BOOLEAN :
        /\ SetWorld(BLC_init(World, "list", LogHandler, json))
        /\ arrived' = [arrived EXCEPT !.phase = "open", !.json = json]
    /\ UNCHANGED <<bufVars, callVars, pollVars, fnCall, forked, envVars>>

\* the channel emits a record; arrived keeps those emitted while the
\* capture is open
LogEmit ==
    /\ arrived.n < MaxEmits
    /\ \E rec \in LogRecords :
        /\ SetWorld(Logger_handle(World, "list", rec))
        /\ arrived' = [arrived EXCEPT !.n = @ + 1,
                                      !.recs = IF arrived.phase = "open"
                                               THEN Append(@, rec) ELSE @]
    /\ UNCHANGED <<bufVars, callVars, pollVars, fnCall, forked, envVars>>

\* BorgLogCapture.close()
LogClose ==
    /\ arrived.phase = "open"
    /\ SetWorld(BLC_close(World, "list", LogHandler))
    /\ arrived' = [arrived EXCEPT !.phase = "closed"]
    /\ UNCHANGED <<bufVars, callVars, pollVars, fnCall, forked, envVars>>

LogNext == LogAttach \/ LogEmit \/ LogClose

SpecLog == LogInit /\ [][LogNext]_vars

-----------------------------------------------------------------------------
(* Spec: BorgAPI, one synchronous caller making one call after another.    *)

Main == "main"

\* what the engine prints and logs in the model
EngineTexts == {<<"a", NL>>, <<"a">>}

Init == BufIdle /\ WorldInit({Main}) /\ LogIdle /\ PollIdle /\ FnIdle

Next ==
    \/ Invoke(Main, Calls)
    \/ OpenSession(Main)
    \/ EngineWrite(Main, EngineTexts)
    \/ EngineEmit(Main, LogRecords)
    \/ EngineReturn(Main)
    \/ EngineRaise(Main, EngineErrors)
    \/ ExitSession(Main)
    \/ RunReturn(Main)
    \/ CloseAgain(Main)

Spec == Init /\ [][Next]_vars

-----------------------------------------------------------------------------
(* SpecAsync: BorgAPIAsync, whose commands run on the threads of a         *)
(* ThreadPoolExecutor, submitted without awaiting the one before.          *)

Workers == {"w1", "w2"}

AsyncCalls ==
    {[NoCall EXCEPT !.cmd = "create", !.list = TRUE],
     [NoCall EXCEPT !.cmd = "create", !.log_json = TRUE],
     [NoCall EXCEPT !.cmd = "extract", !.stdout = TRUE],
     [NoCall EXCEPT !.cmd = "create", !.umask = Some(<<"0", "7", "7">>)]}

\* what the engine prints, logs and raises in the model
AsyncTexts == {<<"a", NL>>}

AsyncRecords == {[level |-> "INFO", msg |-> <<"a">>]}

AsyncErrors == {[cls |-> "Exception", type |-> "AlreadyExists", msg |-> "m1"]}

AsyncInit == BufIdle /\ WorldInit(Workers) /\ LogIdle /\ PollIdle /\ FnIdle

AsyncNext ==
    \E t \in Workers :
        \/ Invoke(t, AsyncCalls)
        \/ OpenSession(t)
        \/ EngineWrite(t, AsyncTexts)
        \/ EngineEmit(t, AsyncRecords)
        \/ EngineReturn(t)
        \/ EngineRaise(t, AsyncErrors)
        \/ ExitSession(t)
        \/ RunReturn(t)

SpecAsync == AsyncInit /\ [][AsyncNext]_vars

-----------------------------------------------------------------------------
(* SpecPoll: BorgAPIAsync with one command in flight at a time and a       *)
(* caller that polls output.progress().get() while it runs, as             *)
(* test_02_watching does.                                                  *)

Poller == "w1"

\* create(..., progress=True), with and without log_json and list
PollCalls ==
    {[NoCall EXCEPT !.cmd = "create", !.progress = TRUE, !.list = l, !.log_json = j] :
        l \in BOOLEAN, j \in BOOLEAN}

\* pollRet.call is the last call whose line the caller received
PollInit ==
    /\ BufIdle /\ WorldInit({Poller}) /\ LogIdle /\ FnIdle
    /\ pollPc = "polling"
    /\ pollRet = [call |-> 0, from |-> Unset, ret |-> NoneRet]

\* output = self.api.create(..., progress=True): submitted to the pool
PollSubmit ==
    /\ pollPc = "polling"
    /\ pollRet.call = ncalls
    /\ Invoke(Poller, PollCalls)

\* test = self.api.output.progress().get(), repeated while it is None (and,
\* in the model, while the line comes from an earlier invocation's buffer)
Poll ==
    /\ pollPc = "polling"
    /\ pollRet.call < ncalls
    /\ LET r == OC_progress_get(World)
       IN  IF r.raised
           THEN /\ pollPc' = "raised"
                /\ UNCHANGED <<pollRet, worldVars>>
           ELSE /\ SetWorld(r.world)
                /\ IF ~r.ret.none /\ r.from = StderrId(ncalls)
                   THEN /\ pollPc' = "awaiting"
                        /\ pollRet' = [call |-> ncalls, from |-> r.from, ret |-> r.ret]
                   ELSE UNCHANGED <<pollPc, pollRet>>
    /\ UNCHANGED <<bufVars, callVars, arrived, fnCall, forked, envVars>>

\* await output
PollAwait ==
    /\ pollPc = "awaiting"
    /\ pc[Poller] = "idle"
    /\ pollPc' = "polling"
    /\ UNCHANGED <<pollRet, bufVars, worldVars, callVars, arrived, fnCall, forked, envVars>>

\* the steps of the pool's thread that do not wait for anything
WorkerStep ==
    \/ OpenSession(Poller)
    \/ ExitSession(Poller)
    \/ RunReturn(Poller)

\* the engine call comes to an end
EngineEnds == EngineReturn(Poller) \/ EngineRaise(Poller, AsyncErrors)

PollNext ==
    \/ PollSubmit
    \/ Poll
    \/ PollAwait
    \/ WorkerStep
    \/ EngineWrite(Poller, EngineTexts)
    \/ EngineEmit(Poller, AsyncRecords)
    \/ EngineEnds

\* the pool's thread keeps running, the engine call ends, and the caller
\* keeps polling
SpecPoll ==
    /\ PollInit /\ [][PollNext]_vars
    /\ WF_vars(WorkerStep) /\ WF_vars(EngineEnds)
    /\ WF_vars(Poll) /\ WF_vars(PollAwait)

-----------------------------------------------------------------------------
(* SpecEnv: set_environ and unset_environ on one BorgAPI, in any order.     *)

\* the variables the model's callers name: A and B are loaded by
\* set_environ, P is a default of the constructor, C is never set
EnvNames == {"A", "B", "C", "P"}

\* set_environ(**kwargs) or set_environ(dictionary=...): the variables are
\* written to os.environ over whatever was there (override=True), and
\* their names kept in _previous_dotenv
SetEnviron ==
    /\ envCall.n < MaxEnvCalls
    /\ \E ks \in (SUBSET {"A", "B"}) \ {{}}, v \in {<<"x">>, <<"y">>} :
        /\ os_environ' = [k \in ks \cup DOMAIN os_environ |->
                              IF k \in ks THEN v ELSE os_environ[k]]
        /\ previous_dotenv' = ks
        /\ envCall' = [op |-> "set", n |-> envCall.n + 1]
    /\ UNCHANGED <<bufVars, worldVars, callVars, arrived, pollVars, fnCall, forked>>

\* unset_environ(*variable): the names given that are in os.environ or, if
\* that list is empty, the names of _previous_dotenv that are; each is
\* deleted in turn, and deleting a name a second time is a KeyError
UnsetEnviron ==
    /\ envCall.n < MaxEnvCalls
    /\ \E variable \in UNION {[1..n -> EnvNames] : n \in 0..MaxNames} :
        LET named == SelectSeq(variable, LAMBDA k : k \in DOMAIN os_environ)
            Without(env, k) == [j \in DOMAIN env \ {k} |-> env[j]]
            RECURSIVE Del(_, _)
            Del(env, vs) ==
                IF vs = <<>> THEN [environ |-> env, raised |-> FALSE]
                ELSE IF Head(vs) \notin DOMAIN env THEN [environ |-> env, raised |-> TRUE]
                ELSE Del(Without(env, Head(vs)), Tail(vs))
            after == IF named # <<>> THEN Del(os_environ, named)
                     ELSE [environ |-> [j \in DOMAIN os_environ \ previous_dotenv |->
                                           os_environ[j]],
                           raised |-> FALSE]
        IN  /\ os_environ' = after.environ
            /\ envCall' = [op |-> "unset", n |-> envCall.n + 1, variable |-> variable,
                           before |-> os_environ, previous |-> previous_dotenv,
                           raised |-> after.raised]
    /\ UNCHANGED <<previous_dotenv, bufVars, worldVars, callVars, arrived, pollVars, fnCall,
                   forked>>

EnvInit == BufIdle /\ WorldInit({}) /\ console.out = RealStdout /\ LogIdle /\ PollIdle /\ FnIdle

EnvNext == SetEnviron \/ UnsetEnviron

SpecEnv == EnvInit /\ [][EnvNext]_vars

-----------------------------------------------------------------------------
(* SpecMount: one mount() call, followed in both processes after the fork. *)

\* mount(progress=, log_json=), with and without a umask that is rejected
MountCalls ==
    {[NoCall EXCEPT !.cmd = "mount", !.progress = p, !.log_json = j, !.umask = u] :
        p \in BOOLEAN, j \in BOOLEAN, u \in {NoneRet, Some(<<"0", "7", "7">>)}}

MountInit == BufIdle /\ WorldInit({Main}) /\ LogIdle /\ PollIdle /\ FnIdle

MountNext ==
    \/ MountInvoke(Main, MountCalls)
    \/ MountParentReturn
    \/ OpenSession(Main)
    \/ EngineWrite(Main, EngineTexts)
    \/ EngineReturn(Main)
    \/ EngineRaise(Main, AsyncErrors)
    \/ ExitSession(Main)
    \/ RunReturn(Main)

SpecMount == MountInit /\ [][MountNext]_vars

-----------------------------------------------------------------------------
(* SpecPure: the functions of borgapi.py and options.py that only compute  *)
(* a value, each applied to one input.                                     *)

\* the literal texts {"a":1}\n{"b":2} and hello\nworld
TwoObjects ==
    <<"{", Q, "a", Q, ":", "1", "}", NL, "{", Q, "b", Q, ":", "2", "}">>

HelloWorld == <<"h", "e", "l", "l", "o", NL, "w", "o", "r", "l", "d">>

\* the texts given to _loads_json_lines: every text of up to MaxJsonLen
\* characters, none of which starts a JSON literal (null, true, false, NaN,
\* Infinity) or a signed number, and longer ones: objects run together,
\* lines of values, a repeated key
JsonTexts ==
    (UNION {[1..n -> {"{", "}", "[", "]", ",", ":", Q, "1", "a", NL}] : n \in 0..MaxJsonLen})
    \cup {TwoObjects, HelloWorld,
          <<"{", "}", "{", "}">>,
          <<"{", Q, "a", Q, ":", "1", "}", "{", Q, "a", Q, ":", "2", "}">>,
          <<"{", Q, "a", Q, ":", "1", ",", Q, "a", Q, ":", "2", "}">>,
          <<"1", NL, "2", NL>>, <<"1", CR, NL, "2">>, <<"[", "1", ",", " ", "2", "]", NL>>,
          <<"a", " ", "a", NL>>, <<"{", "}", NL, "a">>}

\* a captured channel value: a text, the list PersistantHandler.value()
\* gives in JSON mode (the texts of up to two records), or the bytes of a
\* raw stdout
JsonInputs ==
    LET texts == {JsonFormatterText(r.msg) : r \in LogRecords}
        lists == {<<>>} \cup {<<a>> : a \in texts} \cup {<<a, b>> : a \in texts, b \in texts}
    IN  {[type |-> "str", text |-> t, items |-> <<>>] : t \in JsonTexts}
        \cup {[type |-> "list", text |-> <<>>, items |-> l] : l \in lists}
        \cup {[type |-> "bytes", text |-> <<>>, items |-> <<>>]}

\* the results _get_basic_results hands to _build_result: up to three
\* channels, in its order, each with a text, a list, a dict or None
ResultInputs ==
    LET values == {Value("str", <<>>, <<>>), Value("str", <<"x">>, <<>>), Value("str", <<"x", "y">>, <<>>),
                   Value("list", <<>>, <<>>), Value("list", <<>>, <<ObjectText(<<>>)>>),
                   Value("list", <<>>, <<ObjectText(<<>>), <<"1">>>>), Value("none", <<>>, <<>>),
                   Value("item", ObjectText(<<>>), <<>>),
                   Value("item", ObjectText(<<[k |-> <<Q, "a", Q>>, v |-> <<"1">>]>>), <<>>)}
        names == <<"stats", "list", "prog">>
        picks == {p \in SUBSET (1..3) : TRUE}
        Seq3(p) == IF p = {} THEN {<<>>}
                   ELSE LET ns == SelectSeq(<<1, 2, 3>>, LAMBDA n : n \in p)
                        IN  {[i \in 1..Len(ns) |-> [name |-> names[ns[i]], value |-> f[ns[i]]]] :
                                f \in [p -> values]}
    IN  UNION {Seq3(p) : p \in picks}

\* a schema and the keyword mapping it is constructed from: every declared
\* field is left out or given a value of its type (a list field None, a
\* single str or the list a, b, a, ... of up to MaxItems elements), and the
\* mapping may hold a key the schema does not declare
OptionInputs ==
    LET bool(b) == Value("bool", <<IF b THEN "True" ELSE "False">>, <<>>)
        none == Value("none", <<>>, <<>>)
        absent == Value("absent", <<>>, <<>>)
        candidates(f) ==
            CASE f.type = "bool" -> {bool(TRUE), bool(FALSE)}
              [] f.type = "int" -> {Value("int", <<"0">>, <<>>), Value("int", <<"5">>, <<>>)}
              [] f.type = "str" ->
                    {none} \cup {Value("str", t, <<>>) :
                                    t \in {<<"0", "0", "7", "7">>, <<"0", "7", "7">>,
                                           <<"0", "0", "7", "7", "7">>, <<"0", "0", "7", "a">>,
                                           <<>>}}
              [] f.type = "list" ->
                    {none, Value("str", <<"a">>, <<>>)}
                    \cup {Value("list", <<>>, [i \in 1..n |-> IF i % 2 = 1 THEN <<"a">> ELSE <<"b">>]) :
                             n \in 0..MaxItems}
        RECURSIVE Kwargs(_, _)
        Kwargs(fields, i) ==
            IF i > Len(fields) THEN {[n \in {} |-> none]}
            ELSE {IF v = absent THEN rest ELSE (fields[i].name :> v) @@ rest :
                    v \in candidates(fields[i]) \cup {absent}, rest \in Kwargs(fields, i + 1)}
        extras(cls) ==
            {[n \in {} |-> none]}
            \cup {(k :> bool(TRUE)) : k \in {FieldName.zz, FieldName.stats, FieldName.debug}
                                            \ {Fields(cls)[i].name : i \in 1..Len(Fields(cls))}}
    IN  UNION {{[cls |-> cls, kwargs |-> kw @@ x] :
                    kw \in Kwargs(Fields(cls), 1), x \in extras(cls)} :
                cls \in {"CommonOptions", "ExclusionInput", "CreateOptional", "MountOptional"}}

\* a BorgAPI and a create call: three mappings (the constructor's options,
\* the stored defaults of create, the options of the call) over a common
\* field, a field of create and a field of ExclusionInput, an archive and
\* up to one path
ArgInputs ==
    LET bool(b) == Value("bool", <<IF b THEN "True" ELSE "False">>, <<>>)
        layer == {l1 @@ l2 @@ l3 :
                    l1 \in {<<>>, FieldName.log_json :> bool(TRUE), FieldName.log_json :> bool(FALSE)},
                    l2 \in {<<>>, FieldName.stats :> bool(TRUE), FieldName.stats :> bool(FALSE)},
                    l3 \in {<<>>, FieldName.exclude :> Value("list", <<>>, <<<<"a">>>>)}}
    IN  {[api |-> [options |-> o, defaults |-> d], options |-> c,
          archive |-> Value("str", <<"r", ":", ":", "1">>, <<>>), paths |-> p] :
            o \in layer, d \in layer, c \in layer,
            p \in {<<>>, <<Value("str", <<"d">>, <<>>)>>}}

\* the options and log_json arguments of a BorgAPI(...) construction
InitInputs ==
    {[options |-> o, log_json |-> j] :
        o \in {<<>>, FieldName.log_json :> Value("bool", <<"True">>, <<>>),
                FieldName.umask :> Value("str", <<"0", "0", "7", "7">>, <<>>)},
        j \in BOOLEAN}

\* a BorgAPI and a config call with up to MaxChanges changes, each a key
\* or a (key, value) tuple
ConfigInputs ==
    LET str(t) == Value("str", t, <<>>)
        change == {<<str(<<"k", "1">>)>>, <<str(<<"k", "2">>), str(<<"v", "2">>)>>,
                   <<str(<<"k", "3">>), str(<<"v", "3">>)>>}
    IN  {[api |-> [options |-> <<>>, defaults |-> <<>>], options |-> o,
          repository |-> str(<<"r">>), changes |-> c] :
            o \in {<<>>, FieldName.log_json :> Value("bool", <<"True">>, <<>>)},
            c \in UNION {[1..n -> change] : n \in 0..MaxChanges}}

\* the function about to be called and its argument
PureInit ==
    /\ BufIdle /\ WorldInit({}) /\ console.out = RealStdout /\ LogIdle /\ PollIdle
    /\ \/ \E x \in JsonInputs : fnCall = [op |-> "input", fn |-> "_loads_json_lines", arg |-> x]
       \/ \E x \in ResultInputs : fnCall = [op |-> "input", fn |-> "_build_result", arg |-> x]
       \/ \E x \in OptionInputs : fnCall = [op |-> "input", fn |-> "parse", arg |-> x]
       \/ \E x \in ArgInputs : fnCall = [op |-> "input", fn |-> "create", arg |-> x]
       \/ \E x \in InitInputs : fnCall = [op |-> "input", fn |-> "__init__", arg |-> x]
       \/ \E x \in ConfigInputs : fnCall = [op |-> "input", fn |-> "config", arg |-> x]
       \/ \E x \in CMDS : fnCall = [op |-> "input", fn |-> "command", arg |-> x]

LoadsJsonLinesCall ==
    /\ fnCall.op = "input" /\ fnCall.fn = "_loads_json_lines"
    /\ fnCall' = [op |-> "done", fn |-> fnCall.fn, arg |-> fnCall.arg,
                  ret |-> LoadsJsonLines(fnCall.arg)]
    /\ UNCHANGED <<bufVars, worldVars, callVars, arrived, pollVars, forked, envVars>>

BuildResultCall ==
    /\ fnCall.op = "input" /\ fnCall.fn = "_build_result"
    /\ fnCall' = [op |-> "done", fn |-> fnCall.fn, arg |-> fnCall.arg,
                  ret |-> BuildResult(fnCall.arg)]
    /\ UNCHANGED <<bufVars, worldVars, callVars, arrived, pollVars, forked, envVars>>

\* options_class(**kwargs).parse()
ParseCall ==
    /\ fnCall.op = "input" /\ fnCall.fn = "parse"
    /\ fnCall' = [op |-> "done", fn |-> fnCall.fn, arg |-> fnCall.arg,
                  ret |-> LET made == Construct(fnCall.arg.cls, fnCall.arg.kwargs)
                          IN  [exc |-> made.exc, inst |-> made.inst,
                               tokens |-> IF made.exc = "none"
                                          THEN parse(fnCall.arg.cls, made.inst) ELSE <<>>]]
    /\ UNCHANGED <<bufVars, worldVars, callVars, arrived, pollVars, forked, envVars>>

\* api.create(archive, *paths, **options) up to the call of the engine
CreateCall ==
    /\ fnCall.op = "input" /\ fnCall.fn = "create"
    /\ fnCall' = [op |-> "done", fn |-> fnCall.fn, arg |-> fnCall.arg,
                  ret |-> CreateArgs(fnCall.arg.api, fnCall.arg.options,
                                     fnCall.arg.archive, fnCall.arg.paths)]
    /\ UNCHANGED <<bufVars, worldVars, callVars, arrived, pollVars, forked, envVars>>

\* BorgAPI(options=..., log_json=...)
InitCall ==
    /\ fnCall.op = "input" /\ fnCall.fn = "__init__"
    /\ fnCall' = [op |-> "done", fn |-> fnCall.fn, arg |-> fnCall.arg,
                  ret |-> BorgAPIBase_init(fnCall.arg.options, fnCall.arg.log_json)]
    /\ UNCHANGED <<bufVars, worldVars, callVars, arrived, pollVars, forked, envVars>>

\* api.config(repository, *changes, **options) up to the calls of the engine
ConfigCall ==
    /\ fnCall.op = "input" /\ fnCall.fn = "config"
    /\ fnCall' = [op |-> "done", fn |-> fnCall.fn, arg |-> fnCall.arg,
                  ret |-> ConfigArgs(fnCall.arg.api, fnCall.arg.options,
                                     fnCall.arg.repository, fnCall.arg.changes)]
    /\ UNCHANGED <<bufVars, worldVars, callVars, arrived, pollVars, forked, envVars>>

\* a command method called with its positional arguments and no options,
\* up to the call of _run
HeadCall ==
    /\ fnCall.op = "input" /\ fnCall.fn = "command"
    /\ fnCall' = [op |-> "done", fn |-> fnCall.fn, arg |-> fnCall.arg,
                  ret |-> OptionsError([NoCall EXCEPT !.cmd = fnCall.arg])]
    /\ UNCHANGED <<bufVars, worldVars, callVars, arrived, pollVars, forked, envVars>>

PureNext ==
    \/ LoadsJsonLinesCall
    \/ BuildResultCall
    \/ ParseCall
    \/ CreateCall
    \/ InitCall
    \/ ConfigCall
    \/ HeadCall

SpecPure == PureInit /\ [][PureNext]_vars

-----------------------------------------------------------------------------
(* The claims.                                                             *)

\* C1: for a command invocation through _run, whether the engine returns
\* or raises, once the capture session has been closed sys.stdout and
\* sys.stderr are the objects that were installed before the session was
\* opened (console: nothing but a session rebinds them).
C1_StreamsRestoredAfterClose ==
    ~InSession(Main) => (sys_stdout = console.out /\ sys_stderr = console.err)

\* the second of two sessions ended by an engine error, with the caller's
\* own streams installed
C1_Witness ==
    /\ pc[Main] = "idle"
    /\ outcome[Main].op = "call"
    /\ outcome[Main].kind = "raised"
    /\ outcome[Main].site = "engine"
    /\ outcome[Main].session = 2
    /\ console.out = UserStdout
    /\ sys_stdout = UserStdout

\* C2: at most one capture session is open at any instant: opening one
\* while another is active, from a second BorgAPIAsync worker thread, is
\* rejected and does not replace the active session's streams and handlers.
C2_AtMostOneSessionOpen ==
    Cardinality({t \in Workers : InSession(t)}) <= 1

\* C3: after every invocation of a sequence of non-overlapping invocations,
\* whether it succeeded or raised, no capture handler remains attached to the
\* borg.output.list, borg.output.stats or borg.repository channels.
C3_NoHandlerOutlivesCall ==
    ~InSession(Main) => \A ch \in Channels : loggers[ch] = {}

\* a call that raised in the engine after its list capture took a record
C3_Witness ==
    /\ pc[Main] = "idle"
    /\ outcome[Main].kind = "raised"
    /\ outcome[Main].site = "engine"
    /\ output.list_capture \in DOMAIN hheap
    /\ hheap[output.list_capture].records # <<>>
    /\ hheap[output.list_capture].closed

\* C4 as stated: whenever the engine raises during a captured call, _run
\* logs the error at error severity, the caller receives that same exception
\* and no InvocationResult is returned.
C4_EveryEngineRaiseLogged ==
    outcome[Main].engine_exc # NoExc =>
        /\ outcome[Main].kind = "raised"
        /\ outcome[Main].exc = outcome[Main].engine_exc
        /\ outcome[Main].logged = <<ErrorRecord(outcome[Main].engine_exc)>>

\* C4, amended: whenever the engine raises during a captured call the caller
\* receives that same exception and no InvocationResult is returned, and
\* _run logs it at error severity exactly when it is an Exception (a
\* BaseException such as KeyboardInterrupt passes unlogged).
C4_EngineRaisePropagates ==
    outcome[Main].engine_exc # NoExc =>
        /\ outcome[Main].kind = "raised"
        /\ outcome[Main].exc = outcome[Main].engine_exc
        /\ outcome[Main].logged =
                IF outcome[Main].engine_exc.cls = "Exception"
                THEN <<ErrorRecord(outcome[Main].engine_exc)>>
                ELSE <<>>

\* an engine error that was logged and reached the caller
C4_Witness ==
    /\ outcome[Main].kind = "raised"
    /\ outcome[Main].engine_exc.type = "AlreadyExists"
    /\ outcome[Main].exc.type = "AlreadyExists"
    /\ Len(outcome[Main].logged) = 1

\* C5: when option construction fails validation the failure is raised
\* before any capture session is opened and before the engine is called:
\* sys.stdout, sys.stderr, the log channels and the capture are unchanged.
C5_ValidationFailsBeforeSession ==
    [][ (ncalls' = ncalls + 1 /\ outcome'[Main].site = "options") =>
            /\ UNCHANGED worldVars
            /\ nsessions' = nsessions
            /\ pc'[Main] = "idle"
      ]_vars

\* a malformed umask rejected on the call after one that captured output
C5_Witness ==
    /\ outcome[Main].site = "options"
    /\ outcome[Main].exc = UmaskError
    /\ ncalls = 2
    /\ nsessions = 1
    /\ output._stderr \in DOMAIN heap
    /\ heap[output._stderr].io.values # <<>>

\* C6: close() on an already closed session does not raise and leaves
\* sys.stdout, sys.stderr and the handlers attached to the channels as the
\* first close() left them.
C6_CloseIdempotent ==
    [][ ( /\ pc[Main] = "idle" /\ pc'[Main] = "idle" /\ ncalls' = ncalls
          /\ outcome'[Main].op = "close"
          /\ output._stdout # Unset /\ ~output.ready ) =>
            /\ outcome'[Main].kind = "returned"
            /\ UNCHANGED <<sys_stdout, sys_stderr, loggers>>
      ]_vars

\* a second close() of a session that had a list capture
C6_Witness ==
    /\ outcome[Main].op = "close"
    /\ outcome[Main].kind = "returned"
    /\ output.list_capture \in DOMAIN hheap
    /\ console.out = UserStdout

\* C7: get() never exposes an incomplete line: whatever it returns ends with
\* a newline, a fragment being held back until a later write completes it.
C7_GetNeverReturnsFragment ==
    (lsioCall.op = "get" /\ ~lsioCall.ret.none) => Last(lsioCall.ret.val) = NL

\* C8: get() returns the element at the read cursor and advances the cursor
\* by exactly one, or returns None and leaves the cursor alone when nothing
\* is unread; get_all() and getvalues() never move the cursor.
C8_CursorDiscipline ==
    [][ /\ lsioCall'.op = "get" =>
             IF lsio.idx < Len(lsio.values)
             THEN /\ lsioCall'.ret = Some(lsio.values[lsio.idx + 1])
                  /\ lsio'.idx = lsio.idx + 1
             ELSE /\ lsioCall'.ret = NoneRet
                  /\ lsio'.idx = lsio.idx
        /\ lsioCall'.op \in {"get_all", "getvalues"} => lsio'.idx = lsio.idx
      ]_vars

\* a get() that returned the second element, after two writes
C8_Witness ==
    /\ lsioCall.op = "get"
    /\ ~lsioCall.ret.none
    /\ lsio.idx = 2
    /\ nwrites >= 2


\* the engine of call k has written a progress line
ProgressWritten(k) ==
    /\ ncalls = k
    /\ pc[Poller] = "engine"
    /\ heap[StderrId(frame[Poller].session)].io.values # <<>>

\* the caller has received a line of call k
ProgressReceived(k) ==
    /\ pollRet.call = k
    /\ ~pollRet.ret.none

\* C9: while a BorgAPIAsync create(progress=True) call is in flight and the
\* engine has written a progress line, a caller that keeps polling
\* output.progress().get() eventually receives a line written by that
\* invocation.
C9_PollingReceivesProgress ==
    \A k \in 1..MaxCalls : ProgressWritten(k) ~> ProgressReceived(k)

\* what a handler keeps of the records that arrived, in their order: those
\* its level admits, formatted, a text record that strips to nothing dropped
RECURSIVE Kept(_, _)
Kept(recs, json) ==
    IF recs = <<>> THEN <<>>
    ELSE LET rec  == Head(recs)
             body == IF json THEN rec.msg ELSE RStrip(rec.msg)
             fmt  == IF json THEN "json" ELSE "text"
         IN  (IF PassesLevel(rec) /\ (json \/ body # <<>>)
              THEN <<[fmt |-> fmt, body |-> body]>> ELSE <<>>)
             \o Kept(Tail(recs), json)

\* C10: a named-channel log capture accumulates the records emitted on its
\* channel in arrival order, and once it is closed no record is added to it
\* even if the channel keeps emitting.
C10_ArrivalOrderUntilClose ==
    arrived.phase # "none" =>
        hheap[LogHandler].records = Kept(arrived.recs, arrived.json)

\* a closed capture that kept two records, on a channel that emitted after
\* the close
C10_Witness ==
    /\ arrived.phase = "closed"
    /\ Len(arrived.recs) = 2
    /\ arrived.n = 3
    /\ Len(hheap[LogHandler].records) = 2
    /\ hheap[LogHandler].records[1] # hheap[LogHandler].records[2]

\* the texts _loads_json_lines may parse for the text s, in the order of
\* the strategies
Strategies(s) ==
    <<s,
      <<"[">> \o JoinWith(SplitLines(s), <<",">>) \o <<"]">>,
      <<"[">> \o ReplaceBraces(s) \o <<"]">>>>

Parsing(s) == {n \in 1..3 : loads(Strategies(s)[n]).ok}

\* the function fn has been called and has returned or raised
Called(fn) == fnCall.op = "done" /\ fnCall.fn = fn

\* C11: _loads_json_lines never raises for a captured channel value, text or
\* the list of records of a JSON-mode log capture, and gives back the
\* original text when no strategy parses it.
C11_JsonRepairNeverRaises ==
    Called("_loads_json_lines") =>
        /\ fnCall.ret.kind # "raised"
        /\ (fnCall.arg.type = "str" /\ Parsing(fnCall.arg.text) = {}) =>
                fnCall.ret = Result("str", fnCall.arg.text)

\* hello\nworld, which no strategy parses, came back as it was
C11_Witness ==
    /\ Called("_loads_json_lines")
    /\ fnCall.arg.type = "str"
    /\ fnCall.arg.text = HelloWorld
    /\ fnCall.ret.kind = "str"

\* C12: on text, _loads_json_lines returns the result of the first strategy
\* that parses (the whole text; its lines joined with commas in brackets; a
\* comma put at every "}{" in brackets), else the text unchanged.
\* {"a":1}\n{"b":2} gives the array of the two objects and hello\nworld
\* comes back unchanged.
C12_FirstStrategyThatParses ==
    (Called("_loads_json_lines") /\ fnCall.arg.type = "str") =>
        LET s == fnCall.arg.text
            first == CHOOSE n \in Parsing(s) : \A m \in Parsing(s) : n <= m
        IN  /\ Parsing(s) # {} => fnCall.ret = Result("json", loads(Strategies(s)[first]).val)
            /\ Parsing(s) = {} => fnCall.ret = Result("str", s)
            /\ s = TwoObjects =>
                   fnCall.ret = Result("json", <<"[", "{", Q, "a", Q, ":", "1", "}", ",",
                                                 "{", Q, "b", Q, ":", "2", "}", "]">>)
            /\ s = HelloWorld => fnCall.ret = Result("str", HelloWorld)

\* two objects run together, parsed by the third strategy only
C12_Witness ==
    /\ Called("_loads_json_lines")
    /\ fnCall.arg.type = "str"
    /\ Parsing(fnCall.arg.text) = {3}
    /\ fnCall.ret.kind = "json"

\* a value Python takes as false: the empty text, list or dict, None
Falsy(v) ==
    \/ v.type = "none"
    \/ v.type = "item" /\ v.text = ObjectText(<<>>)
    \/ v.type = "str" /\ v.text = <<>>
    \/ v.type = "list" /\ v.items = <<>>

\* C13: _build_result gives None for zero channels, the channel's value
\* itself, unmodified, for exactly one, and for two or more a mapping from
\* name to value that leaves out every channel whose value is empty or falsy
\* and holds no null placeholder.
C13_ResultAssembly ==
    Called("_build_result") =>
        LET rs == fnCall.arg
            kept == {n \in 1..Len(rs) : ~Falsy(rs[n].value)}
        IN  /\ Len(rs) = 0 => fnCall.ret.kind = "none"
            /\ Len(rs) = 1 => (fnCall.ret.kind = "value" /\ fnCall.ret.value = rs[1].value)
            /\ Len(rs) >= 2 =>
                   /\ fnCall.ret.kind = "map"
                   /\ DOMAIN fnCall.ret.map = {rs[n].name : n \in kept}
                   /\ \A n \in kept : fnCall.ret.map[rs[n].name] = rs[n].value

\* C14: a command that shows only the list channel returns, without JSON
\* mode, the text emitted on the list channel verbatim (the messages one
\* after the other, or one per line), and with log_json the array of the
\* objects emitted, in emission order.
C14_ListOnlyResult ==
    [][(pc[Main] = "after" /\ pc'[Main] = "idle"
            /\ frame[Main].opts.list_show /\ ~frame[Main].opts.stats_show
            /\ ~frame[Main].opts.prog_show /\ ~frame[Main].opts.raw_bytes)
        => LET msgs == frame[Main].listed
               final == outcome'[Main].final
           IN  /\ final.kind = "value"
               /\ IF frame[Main].opts.list_json
                  THEN final.value = Value("list", <<>>,
                                           [n \in 1..Len(msgs) |-> JsonFormatterText(msgs[n])])
                  ELSE final.value \in {Value("str", Join(msgs), <<>>),
                                        Value("str", JoinLines(msgs), <<>>)}]_vars

\* what the claim has parse() emit for field f holding attr
Emitted(f, attr) ==
    LET dashed == <<"-", "-">> \o [i \in 1..Len(f.name) |->
                                      IF f.name[i] = "_" THEN "-" ELSE f.name[i]]
        flag == Value("str", dashed, <<>>)
        RECURSIVE Pairs(_)
        Pairs(l) == IF l = <<>> THEN <<>>
                    ELSE <<flag, Value("str", Head(l), <<>>)>> \o Pairs(Tail(l))
    IN  IF attr = f.default \/ attr.type = "none" THEN <<>>
        ELSE IF f.type = "bool" THEN <<flag>>
        ELSE IF f.type = "list" THEN Pairs(attr.items)
        ELSE <<flag, attr>>

\* C15: parse() gives, field by field in declaration order, nothing for a
\* field at its default, the flag alone for a boolean that is not, the flag
\* and the value for a str or an int, and one flag and value pair for every
\* element of a list.
C15_ParseInDeclarationOrder ==
    (Called("parse") /\ fnCall.ret.exc = "none") =>
        LET fields == Fields(fnCall.arg.cls)
            RECURSIVE From(_)
            From(i) == IF i > Len(fields) THEN <<>>
                       ELSE Emitted(fields[i], fnCall.ret.inst[fields[i].name]) \o From(i + 1)
        IN  fnCall.ret.tokens = From(1)

\* CommonOptions(debug=True, debug_topic=["a", "b"], lock_wait=5), parsed
C15_Witness ==
    /\ Called("parse") /\ fnCall.arg.cls = "CommonOptions"
    /\ fnCall.ret.tokens =
           <<Value("str", <<"-", "-", "d", "e", "b", "u", "g">>, <<>>),
             Value("str", <<"-", "-", "d", "e", "b", "u", "g", "-", "t", "o", "p", "i", "c">>, <<>>),
             Value("str", <<"a">>, <<>>),
             Value("str", <<"-", "-", "d", "e", "b", "u", "g", "-", "t", "o", "p", "i", "c">>, <<>>),
             Value("str", <<"b">>, <<>>),
             Value("str", <<"-", "-", "l", "o", "c", "k", "-", "w", "a", "i", "t">>, <<>>),
             Value("int", <<"5">>, <<>>)>>

\* the keywords of the call that the schema declares
Declared ==
    LET fields == Fields(fnCall.arg.cls)
    IN  [n \in DOMAIN fnCall.arg.kwargs \cap {fields[i].name : i \in 1..Len(fields)} |->
            fnCall.arg.kwargs[n]]

\* C16: a keyword the schema does not declare never makes the construction
\* raise and changes neither the instance nor the tokens of parse().
C16_UndeclaredKeysIgnored ==
    Called("parse") =>
        LET alone == Construct(fnCall.arg.cls, Declared)
        IN  /\ fnCall.ret.exc = alone.exc
            /\ fnCall.ret.inst = alone.inst
            /\ alone.exc = "none" => fnCall.ret.tokens = parse(fnCall.arg.cls, alone.inst)

C16_Witness ==
    /\ Called("parse")
    /\ FieldName.zz \in DOMAIN fnCall.arg.kwargs
    /\ fnCall.ret.exc = "none"
    /\ Len(fnCall.ret.tokens) = 3

\* C17: a list-typed field given a single string is stored as the list of
\* that string, and parse() emits one flag and value pair for it.
C17_SingleStringBecomesList ==
    Called("parse") =>
        \A f \in {Fields(fnCall.arg.cls)[i] : i \in 1..Len(Fields(fnCall.arg.cls))} :
            (f.type = "list" /\ f.name \in DOMAIN fnCall.arg.kwargs
                /\ fnCall.arg.kwargs[f.name].type = "str")
            => /\ fnCall.ret.exc = "none"
               /\ fnCall.ret.inst[f.name] =
                      Value("list", <<>>, <<fnCall.arg.kwargs[f.name].text>>)
               /\ Len(SelectSeq(fnCall.ret.tokens,
                                LAMBDA t : t = Value("str", convert_name(f.name), <<>>))) = 1

\* C18: CommonOptions raises the format error exactly when the umask it is
\* given is not a string of exactly four digits.
C18_UmaskExactlyFourDigits ==
    (Called("parse") /\ fnCall.arg.cls = "CommonOptions"
        /\ FieldName.umask \in DOMAIN fnCall.arg.kwargs
        /\ fnCall.arg.kwargs[FieldName.umask].type = "str"
        /\ fnCall.ret.exc # "AttributeError")
    => LET u == fnCall.arg.kwargs[FieldName.umask].text
       IN  fnCall.ret.exc = "ValueError" <=> ~(Len(u) = 4 /\ \A i \in 1..4 : u[i] \in Digits)

\* the value field n of schema cls takes from these mappings, the first
\* that sets it winning, and its default if none does
Layered(cls, n, layers) ==
    LET setting == {i \in 1..Len(layers) : n \in DOMAIN layers[i]}
        fields == Fields(cls)
    IN  IF setting = {}
        THEN (CHOOSE f \in {fields[i] : i \in 1..Len(fields)} : f.name = n).default
        ELSE layers[CHOOSE i \in setting : \A j \in setting : i <= j][n]

\* C19 as stated: every option set of a command is the field defaults
\* under the constructor's common options, under the stored defaults of
\* the command, under the options of the call, for the fields of the
\* command as for the common ones.
C19_FourLayers ==
    Called("create") =>
        LET a == fnCall.arg
            layers == <<a.options, a.api.defaults, a.api.options>>
        IN  /\ \A n \in DOMAIN fnCall.ret.common :
                   fnCall.ret.common[n] = Layered("CommonOptions", n, layers)
            /\ \A n \in DOMAIN fnCall.ret.command :
                   fnCall.ret.command[n] = Layered("CreateOptional", n, layers)
            /\ \A n \in DOMAIN fnCall.ret.group :
                   fnCall.ret.group[n] = Layered("ExclusionInput", n, layers)

\* C19, amended: the common options and the option groups of a command are
\* the field defaults under the constructor's common options under the
\* options of the call; the command's own options are the field defaults
\* under the stored defaults of the command under the options of the call.
C19_TwoLayersEach ==
    Called("create") =>
        LET a == fnCall.arg
        IN  /\ \A n \in DOMAIN fnCall.ret.common :
                   fnCall.ret.common[n] =
                       Layered("CommonOptions", n, <<a.options, a.api.options>>)
            /\ \A n \in DOMAIN fnCall.ret.command :
                   fnCall.ret.command[n] =
                       Layered("CreateOptional", n, <<a.options, a.api.defaults>>)
            /\ \A n \in DOMAIN fnCall.ret.group :
                   fnCall.ret.group[n] =
                       Layered("ExclusionInput", n, <<a.options, a.api.options>>)

\* the constructor sets log_json and stats, the stored defaults set stats
\* and log_json, the call unsets stats: log_json comes from the
\* constructor and stats from the call
C19_Witness ==
    LET Sets(m, n, v) == n \in DOMAIN m /\ m[n].text = <<v>>
    IN  /\ Called("create")
        /\ Sets(fnCall.arg.api.options, FieldName.log_json, "True")
        /\ Sets(fnCall.arg.api.options, FieldName.stats, "True")
        /\ Sets(fnCall.arg.api.defaults, FieldName.stats, "True")
        /\ Sets(fnCall.arg.api.defaults, FieldName.log_json, "False")
        /\ FieldName.log_json \notin DOMAIN fnCall.arg.options
        /\ Sets(fnCall.arg.options, FieldName.stats, "False")
        /\ fnCall.ret.common[FieldName.log_json].text = <<"True">>
        /\ fnCall.ret.command[FieldName.stats].text = <<"False">>

\* a token that is a flag
IsFlag(t) == Len(t.text) >= 2 /\ t.text[1] = "-" /\ t.text[2] = "-"

C21_CompactReturnsNone ==
    LET o == outcome[Main]
    IN  (o.op = "call" /\ o.call.cmd = "compact" /\ ~o.call.verbose /\ ~o.call.progress)
            => /\ o.session > 0
               /\ o.site # "engine" => (o.kind = "returned" /\ o.final.kind = "none")

\* C22: whatever options mount() is given (and CommonOptions accepts), the
\* parent returns a mapping that holds the child's non-zero pid, and its
\* call opens no capture session and carries none of the child's captured
\* output; the child's call runs in a capture session.
C22_MountParentReturnsPid ==
    /\ forked.pc = "done" =>
           /\ forked.outcome.kind = "returned"
           /\ forked.outcome.final.kind = "value"
           /\ forked.outcome.final.value = PidDict(forked.pid)
           /\ forked.pid \notin {<<>>, <<"0">>}
           /\ forked.outcome.session = 0
           /\ forked.outcome.logged = <<>>
    /\ (forked.pc # "none" /\ outcome[Main].op = "call") => outcome[Main].session > 0

\* C23: unset_environ with one or more names removes from the environment
\* the named variables that are present and nothing else, also none of the
\* variables the previous set_environ loaded; with no name it removes the
\* variables the previous set_environ loaded.
C23_UnsetOnlyNamed ==
    envCall.op = "unset" =>
        LET names == {envCall.variable[n] : n \in 1..Len(envCall.variable)}
            gone == IF names # {} THEN names ELSE envCall.previous
        IN  /\ ~envCall.raised
            /\ os_environ = [k \in DOMAIN envCall.before \ gone |-> envCall.before[k]]

\* C24: BorgAPI(log_json=True) is constructed without an exception, holds
\* log_json = True in its common options (so that every command serializes
\* --log-json) and leaves archiver.log_json set.
C24_LogJsonConstructs ==
    (Called("__init__") /\ fnCall.arg.log_json) =>
        /\ fnCall.ret.exc = "none"
        /\ FieldName.log_json \in DOMAIN fnCall.ret.options
        /\ fnCall.ret.options[FieldName.log_json] = Value("bool", <<"True">>, <<>>)
        /\ fnCall.ret.archiver_log_json

\* C25: once two command calls of one BorgAPIAsync, run by two workers of
\* the pool in any interleaving of their open, write and close steps, have
\* both completed, sys.stdout and sys.stderr are the objects installed
\* before either call began.
C25_OverlapRestoresStreams ==
    (\A t \in Workers : pc[t] = "idle" /\ outcome[t].op = "call" /\ outcome[t].session > 0)
        => /\ sys_stdout = console.out
           /\ sys_stderr = console.err

\* C26: on every path out of _run, with the engine having returned or raised,
\* archiver.log_json is what it was when _run was entered.
C26_LogJsonRestored ==
    [][(pc[Main] \in {"exit", "after"} /\ pc'[Main] = "idle")
          => archiver_log_json' = frame[Main].prev_json]_vars

\* C27: config(repository, c1, ..., cn) with n >= 2 calls the engine n
\* times, and the argument vector of the i-th call is the program name,
\* once, then the base config arguments, then the key (and value) of the
\* i-th change and of no other.
C27_OneChangePerInvocation ==
    (Called("config") /\ Len(fnCall.arg.changes) >= 2) =>
        /\ Len(fnCall.ret.runs) = Len(fnCall.arg.changes)
        /\ \A i \in 1..Len(fnCall.ret.runs) :
              fnCall.ret.runs[i] = <<Value("str", <<"b", "o", "r", "g", "a", "p", "i">>, <<>>)>>
                                   \o fnCall.ret.base \o fnCall.arg.changes[i]

C29_EveryCommandReachesEngine ==
    Called("command") => fnCall.ret = NoExc

\* C30: for list(), for create() with list and log_json, and for config()
\* with list, once the engine has returned the command method returns a
\* value and raises nothing, whatever records the engine logged on the list
\* channel during the call.
C30_ListSynthesisNeverRaises ==
    LET o == outcome[Main]
    IN  (/\ o.op = "call"
         /\ \/ o.call.cmd = "list"
            \/ o.call.cmd = "create" /\ o.call.list /\ o.call.log_json
            \/ o.call.cmd = "config" /\ o.call.list
         /\ o.site \notin {"options", "engine"})
            => o.kind = "returned"

=========================================================================
